---- MODULE Spec2Model ----
(***************************************************************************)
(* Model of the resume export module (PDF layout engine, Word export) and  *)
(* the on-screen preview of the resume optimizer.                          *)
(*                                                                         *)
(* Lengths are integers in units of 1/UnitsPerMm mm.  With 2500000 units   *)
(* per mm every line height fontSize * 1.2 * 0.352778 mm of the fonts in   *)
(* PDF_CONFIG is an exact integer, so the layout arithmetic is exact.      *)
(* A text is modelled by the number of lines doc.splitTextToSize wraps it  *)
(* to at the width it is drawn with (jsPDF is an external library).        *)
(***************************************************************************)
EXTENDS Integers, Sequences, FiniteSets, TLC

VARIABLES state, pc, resumeData, userType, result, word, preview, outcome, fault,
          handlers, sub, optimizer, buttons, auth

\* the variables no step of an export touches
others == <<handlers, sub, optimizer, buttons, auth>>

vars == <<state, pc, resumeData, userType, result, word, preview, outcome, fault, others>>

(***************************************************************************)
(* Bounds of the model.                                                    *)
(***************************************************************************)
\* largest number of wrapped lines of one text block
MaxLines == 74
\* largest number of entries of one list section
MaxEntries == 2
MaxRuns == 2
MaxOptimizations == 2

(***************************************************************************)
(* PDF_CONFIG                                                              *)
(***************************************************************************)
UnitsPerMm == 2500000

mm(x) == x * UnitsPerMm

pageWidth == mm(210)
pageHeight == mm(300)
marginTop == mm(10)
marginBottom == mm(0)
marginLeft == mm(15)
marginRight == mm(15)

\* font sizes in tenths of a point
fontName == 200
fontContact == 90
fontSectionTitle == 100
fontJobTitle == 95
fontCompany == 95
fontYear == 95
fontBody == 95

nameFromTop == mm(20)
afterName == mm(2)
afterContact == mm(3)
sectionSpacingBefore == mm(3)
sectionSpacingAfter == mm(2)
bulletListSpacing == mm(0)
afterSubsection == mm(4)

\* spacing.lineHeight (1.2) in tenths
lineHeightTenths == 12
\* the pt -> mm factor 0.352778 in millionths
ptToMmMillionths == 352778

\* fontSize * PDF_CONFIG.spacing.lineHeight * 0.352778 (mm), in units
lineHeightOf(fs) == (fs * lineHeightTenths * ptToMmMillionths) \div (100000000 \div UnitsPerMm)

(***************************************************************************)
(* PageState and the jsPDF document.                                       *)
(* state.numPages / state.curPage are the document's page count and the    *)
(* page its drawing calls go to; state.items is the list of what was drawn.*)
(* state.ret is the value returned by the function that returned last and  *)
(* state.total the local totalHeight of the section renderer that runs.    *)
(* Every function takes the PageState and yields the PageState after it.   *)
(***************************************************************************)
\* what a drawing call draws: its role, its section, the position of its
\* entry in the section's list and (for a certification) the string drawn
TagT(kind, sec, entry, text) == [kind |-> kind, sec |-> sec, entry |-> entry, text |-> text]

Tag(kind, sec, entry) == TagT(kind, sec, entry, << >>)

\* new jsPDF(...) and the PageState literal of exportToPDF
NewPageState ==
  [currentPage |-> 1, currentY |-> marginTop,
   numPages |-> 1, curPage |-> 1, items |-> << >>, ret |-> 0, total |-> 0]

\* state.currentY += dy
bump(S, dy) == [S EXCEPT !.currentY = @ + dy]

\* return v
returning(S, v) == [S EXCEPT !.ret = v]

\* let totalHeight = <value returned last>
totalFromRet(S) == [S EXCEPT !.total = S.ret]

\* totalHeight += <value returned last>
totalAddRet(S) == [S EXCEPT !.total = @ + S.ret]

\* totalHeight += v
totalAdd(S, v) == [S EXCEPT !.total = @ + v]

\* return totalHeight
returnTotal(S) == [S EXCEPT !.ret = S.total]

\* a drawing call of the document (doc.text, doc.line): it lands on the
\* document's current page.  y0 and cp0 are the cursor at the start of the
\* function that draws; cp, np, cy the cursor and page count at the call.
docDraw(S, op, tag, y, n, lh, y0, cp0) ==
  [S EXCEPT !.items = Append(@,
     [op |-> op, kind |-> tag.kind, sec |-> tag.sec, entry |-> tag.entry,
      text |-> tag.text,
      page |-> S.curPage, pageLast |-> S.curPage, y |-> y, n |-> n, lh |-> lh,
      y0 |-> y0, cp0 |-> cp0,
      cp |-> S.currentPage, np |-> S.numPages, cy |-> S.currentY])]

docText(S, tag, y) == docDraw(S, "text", tag, y, 1, 0, S.currentY, S.currentPage)

docLine(S, tag, y) == docDraw(S, "line", tag, y, 0, 0, S.currentY, S.currentPage)

\* doc.addPage(): appends a page and makes it the current page
docAddPage(S) == [S EXCEPT !.numPages = @ + 1, !.curPage = S.numPages + 1]

\* doc.setPage(i)
docSetPage(S, i) == [S EXCEPT !.curPage = i]

\* variant: the boundary value does not fit
checkPageSpaceStrict(S, requiredHeight) ==
  LET maxY == pageHeight - marginBottom
  IN  (S.currentY + requiredHeight) < maxY

checkPageSpace(S, requiredHeight) ==
  LET maxY == pageHeight - marginBottom
  IN  (S.currentY + requiredHeight) <= maxY

\* variant: the page counter is not incremented
addNewPageNoCount(S) ==
  docDraw([docAddPage(S) EXCEPT !.currentY = marginTop],
          "text", Tag("pageLabel", "none", S.currentPage + 1),
          pageHeight - (marginBottom \div 2), 1, 0, S.currentY, S.currentPage)

\* addNewPage: addPage, currentPage++, currentY = top margin, "Page n" label
addNewPage(S) ==
  docDraw([docAddPage(S) EXCEPT !.currentPage = @ + 1, !.currentY = marginTop],
          "text", Tag("pageLabel", "none", S.currentPage + 1),
          pageHeight - (marginBottom \div 2), 1, 0, S.currentY, S.currentPage)

\* if (!checkPageSpace(state, h)) { addNewPage(state); }
ensurePageSpace(S, h) == IF ~checkPageSpace(S, h) THEN addNewPage(S) ELSE S

\* lines.forEach of drawText: line index is drawn at currentY + index *
\* lineHeight; then currentY += totalHeight; return totalHeight
drawLines(S, tag, n, lineHeight, y0, cp0) ==
  returning(bump(docDraw(S, "drawText", tag, S.currentY, n, lineHeight, y0, cp0),
                 n * lineHeight),
            n * lineHeight)

\* variant: the lines are drawn first and the page is broken afterwards
drawTextBreakAfter(S, tag, n, fontSize) ==
  ensurePageSpace(drawLines(S, tag, n, lineHeightOf(fontSize), S.currentY, S.currentPage),
                  0)

\* drawText: n is lines.length of splitTextToSize(text, maxWidth)
drawText(S, tag, n, fontSize) ==
  drawLines(ensurePageSpace(S, n * lineHeightOf(fontSize)),
            tag, n, lineHeightOf(fontSize), S.currentY, S.currentPage)

\* the underline of drawSectionTitle and its return
underlineTitle(S, title) ==
  returning(
    bump(docLine(S, Tag("underline", title, 0),
                 S.currentY
                 - ((fontSectionTitle * ptToMmMillionths) \div (20000000 \div UnitsPerMm))
                 + (UnitsPerMm \div 2)),
         sectionSpacingAfter),
    S.ret + sectionSpacingBefore + sectionSpacingAfter)

drawSectionTitle(S, title) ==
  underlineTitle(
    drawText(ensurePageSpace(bump(S, sectionSpacingBefore),
                             lineHeightOf(fontSectionTitle) + mm(2)),
             Tag("sectionTitle", title, 0), 1, fontSectionTitle),
    title)

(***************************************************************************)
(* Section renderers                                                       *)
(***************************************************************************)
\* contactParts of drawContactInfo: the non-empty fields in the fixed order
contactOrder == <<"location", "phone", "email", "linkedin", "github">>

contactParts(data) == SelectSeq(contactOrder, LAMBDA f : f \in data.contact)

\* state.currentY += afterContact; return height + afterContact
afterContactText(S) == returning(bump(S, afterContact), S.ret + afterContact)

drawContactInfo(S, data) ==
  IF Len(contactParts(data)) = 0 THEN returning(S, 0)
  ELSE afterContactText(drawText(S, Tag("contact", "header", 0), 1, fontContact))

\* bullets.forEach(bullet => { totalHeight += drawText(...) }), from bullet k
RECURSIVE drawBullets(_, _, _, _, _)
drawBullets(S, sec, entry, bullets, k) ==
  IF k > Len(bullets) THEN S
  ELSE drawBullets(totalAddRet(drawText(S, Tag("bullet", sec, entry), bullets[k], fontBody)),
                   sec, entry, bullets, k + 1)

\* if (index < list.length - 1) { currentY += gap; totalHeight += counted }
betweenEntries(S, list, index, gap, counted) ==
  IF index < Len(list) THEN totalAdd(bump(S, gap), counted) ELSE S

\* the bullet list of a job or project
bulletList(S, sec, index, bullets) ==
  IF Len(bullets) > 0
  THEN bump(drawBullets(bump(S, bulletListSpacing), sec, index, bullets, 1),
            bulletListSpacing)
  ELSE S

\* drawWorkExperience, forEach body after the job title: year label at the
\* captured initialYForJob (yearY = initialYForJob + jobTitle.size *
\* 0.352778; the label is recorded with the captured value), the company
\* line, the gap, the bullets, the space between jobs
jobAfterTitle(S, initialYForJob, sec, workExperience, index) ==
  betweenEntries(
    bulletList(
      bump(docText(docText(S, Tag("year", sec, index), initialYForJob),
                   Tag("company", sec, index), S.currentY),
           workExperience[index].company * lineHeightOf(fontCompany) + mm(1)),
      sec, index, workExperience[index].bullets),
    workExperience, index, afterSubsection, afterSubsection)

\* forEach body from const initialYForJob = state.currentY
jobFromCapture(S, sec, workExperience, index) ==
  jobAfterTitle(drawText(S, Tag("header", sec, index), workExperience[index].role,
                         fontJobTitle),
                S.currentY, sec, workExperience, index)

\* body of workExperience.forEach for the job at position index (1-based)
drawJob(S, sec, workExperience, index) ==
  jobFromCapture(
    ensurePageSpace(S, 3 * lineHeightOf(fontJobTitle) + lineHeightOf(fontBody)
                       + bulletListSpacing * 2 + afterSubsection),
    sec, workExperience, index)

\* variant: the jobs are taken from the end of the list
RECURSIVE jobsLoopBackwards(_, _, _, _)
jobsLoopBackwards(S, sec, workExperience, index) ==
  IF index > Len(workExperience) THEN S
  ELSE jobsLoopBackwards(drawJob(S, sec, workExperience, Len(workExperience) - index + 1),
                         sec, workExperience, index + 1)

RECURSIVE jobsLoop(_, _, _, _)
jobsLoop(S, sec, workExperience, index) ==
  IF index > Len(workExperience) THEN S
  ELSE jobsLoop(drawJob(S, sec, workExperience, index), sec, workExperience, index + 1)

experienceTitle(ut) == IF ut = "fresher" THEN "WORK EXPERIENCE" ELSE "EXPERIENCE"

drawWorkExperience(S, workExperience, ut) ==
  IF Len(workExperience) = 0 THEN returning(S, 0)
  ELSE returnTotal(jobsLoop(totalFromRet(drawSectionTitle(S, experienceTitle(ut))),
                            experienceTitle(ut), workExperience, 1))

\* if (edu.cgpa) { cgpaHeight = drawText(...) }
eduCgpa(S, edu, index) ==
  IF edu.cgpa > 0
  THEN totalAddRet(drawText(S, Tag("cgpa", "EDUCATION", index), edu.cgpa, fontBody))
  ELSE S

\* if (edu.relevantCoursework && edu.relevantCoursework.length > 0) { ... }
eduCoursework(S, edu, index) ==
  IF edu.relevantCoursework > 0
  THEN totalAddRet(drawText(S, Tag("coursework", "EDUCATION", index),
                            edu.relevantCoursework, fontBody))
  ELSE S

\* drawEducation, forEach body after the page-space check; initialYForEdu
\* was captured before the check
eduAfterCheck(S, initialYForEdu, education, index) ==
  betweenEntries(
    docText(
      eduCoursework(
        eduCgpa(
          totalAddRet(drawText(
            totalAddRet(drawText(S, Tag("header", "EDUCATION", index),
                                 education[index].degree, fontJobTitle)),
            Tag("school", "EDUCATION", index), education[index].school, fontCompany)),
          education[index], index),
        education[index], index),
      Tag("year", "EDUCATION", index), initialYForEdu),
    education, index, mm(3), afterSubsection)

\* variant: the cursor is moved back to the captured position for the year
drawEduRewind(S, education, index) ==
  [eduAfterCheck(ensurePageSpace(S, mm(20)), S.currentY, education, index)
     EXCEPT !.currentY = S.currentY + lineHeightOf(fontYear)]

\* body of education.forEach for the entry at position index
drawEdu(S, education, index) ==
  eduAfterCheck(ensurePageSpace(S, mm(20)), S.currentY, education, index)

RECURSIVE eduLoop(_, _, _)
eduLoop(S, education, index) ==
  IF index > Len(education) THEN S
  ELSE eduLoop(drawEdu(S, education, index), education, index + 1)

\* variant: the spacing before the title is added before the emptiness check
drawEducationSpaceFirst(S, education) ==
  IF Len(education) = 0 THEN returning(bump(S, mm(4)), 0)
  ELSE returnTotal(eduLoop(totalFromRet(drawSectionTitle(bump(S, mm(4)), "EDUCATION")),
                           education, 1))

drawEducation(S, education) ==
  IF Len(education) = 0 THEN returning(S, 0)
  ELSE returnTotal(eduLoop(totalFromRet(drawSectionTitle(bump(S, mm(4)), "EDUCATION")),
                           education, 1))

\* body of projects.forEach for the project at position index
drawProject(S, projects, index) ==
  betweenEntries(
    bulletList(
      bump(totalAddRet(drawText(ensurePageSpace(S, mm(25)),
                                Tag("header", "PROJECTS", index),
                                projects[index].title, fontJobTitle)),
           mm(2)),
      "PROJECTS", index, projects[index].bullets),
    projects, index, afterSubsection, afterSubsection)

RECURSIVE projectsLoop(_, _, _)
projectsLoop(S, projects, index) ==
  IF index > Len(projects) THEN S
  ELSE projectsLoop(drawProject(S, projects, index), projects, index + 1)

drawProjects(S, projects) ==
  IF Len(projects) = 0 THEN returning(S, 0)
  ELSE returnTotal(projectsLoop(totalFromRet(drawSectionTitle(S, "PROJECTS")), projects, 1))

\* drawSkills, forEach body after the page-space check: the bold category,
\* the lines of the list (skill.lines is lines.length of
\* splitTextToSize(listText, remainingWidth)), the cursor advance
skillAfterCheck(S, skills, index) ==
  betweenEntries(
    totalAdd(
      bump(docDraw(docText(S, Tag("header", "SKILLS", index), S.currentY),
                   "text", Tag("skillList", "SKILLS", index), S.currentY,
                   skills[index].lines, lineHeightOf(fontBody),
                   S.currentY, S.currentPage),
           skills[index].lines * lineHeightOf(fontBody)),
      skills[index].lines * lineHeightOf(fontBody)),
    skills, index, mm(2), mm(2))

\* body of skills.forEach for the skill at position index
drawSkill(S, skills, index) == skillAfterCheck(ensurePageSpace(S, mm(15)), skills, index)

RECURSIVE skillsLoop(_, _, _)
skillsLoop(S, skills, index) ==
  IF index > Len(skills) THEN S
  ELSE skillsLoop(drawSkill(S, skills, index), skills, index + 1)

drawSkills(S, skills) ==
  IF Len(skills) = 0 THEN returning(S, 0)
  ELSE returnTotal(skillsLoop(totalFromRet(drawSectionTitle(S, "SKILLS")), skills, 1))

(***************************************************************************)
(* Certifications.  An entry is a plain string, an object (its own keys in *)
(* insertion order, each with a string value; "" is the falsy value) or    *)
(* anything else (null, a number).  A display string is the sequence of    *)
(* the pieces it is concatenated from.                                     *)
(***************************************************************************)
HasKey(cert, k) == \E i \in 1..Len(cert.fields) : cert.fields[i][1] = k

Field(cert, k) == LET i == CHOOSE j \in 1..Len(cert.fields) : cert.fields[j][1] = k
                  IN  cert.fields[i][2]

RECURSIVE joinPieces(_, _)
joinPieces(values, sep) ==
  IF Len(values) = 0 THEN << >>
  ELSE IF Len(values) = 1 THEN <<values[1]>>
  ELSE <<values[1], sep>> \o joinPieces(Tail(values), sep)

\* Object.values(cert).filter(Boolean).join(' - ')
joinTruthyValues(cert) ==
  LET values == [i \in 1..Len(cert.fields) |-> cert.fields[i][2]]
  IN  joinPieces(SelectSeq(values, LAMBDA v : v # ""), " - ")

\* JSON.stringify(cert)
RECURSIVE jsonMembers(_)
jsonMembers(fields) ==
  IF Len(fields) = 0 THEN << >>
  ELSE <<fields[1][1], ":", fields[1][2]>>
       \o (IF Len(fields) > 1 THEN <<",">> ELSE << >>) \o jsonMembers(Tail(fields))

jsonStringify(cert) == <<"{">> \o jsonMembers(cert.fields) \o <<"}">>

\* the certText chain of drawCertifications
certTextPDF(cert) ==
  IF cert.type = "string" THEN <<cert.str>>
  ELSE IF cert.type = "object"
  THEN IF HasKey(cert, "title") /\ HasKey(cert, "issuer")
       THEN <<Field(cert, "title"), " - ", Field(cert, "issuer")>>
       ELSE IF HasKey(cert, "name") THEN <<Field(cert, "name")>>
       ELSE jsonStringify(cert)
  ELSE <<"String", cert.str>>

\* the certText chain of generateWordHTMLContent
certTextWord(cert) ==
  IF cert.type = "string" THEN <<cert.str>>
  ELSE IF cert.type = "object"
  THEN IF HasKey(cert, "title") /\ HasKey(cert, "description")
       THEN <<Field(cert, "title"), " - ", Field(cert, "description")>>
       ELSE IF HasKey(cert, "title") /\ HasKey(cert, "issuer")
       THEN <<Field(cert, "title"), " - ", Field(cert, "issuer")>>
       ELSE IF HasKey(cert, "name") THEN <<Field(cert, "name")>>
       ELSE IF HasKey(cert, "title") THEN <<Field(cert, "title")>>
       ELSE IF HasKey(cert, "description") THEN <<Field(cert, "description")>>
       ELSE joinTruthyValues(cert)
  ELSE <<"String", cert.str>>

\* the certText chain of ResumePreview.renderSection
certTextPreview(cert) ==
  IF cert.type = "string" THEN <<cert.str>>
  ELSE IF cert.type = "object"
  THEN IF HasKey(cert, "title") /\ HasKey(cert, "issuer")
       THEN <<Field(cert, "title"), " - ", Field(cert, "issuer")>>
       ELSE IF HasKey(cert, "title") /\ HasKey(cert, "description")
       THEN <<Field(cert, "title"), " - ", Field(cert, "description")>>
       ELSE IF HasKey(cert, "name") THEN <<Field(cert, "name")>>
       ELSE IF HasKey(cert, "title") THEN <<Field(cert, "title")>>
       ELSE IF HasKey(cert, "description") THEN <<Field(cert, "description")>>
       ELSE joinTruthyValues(cert)
  ELSE <<"String", cert.str>>


\* certifications.forEach from position index; cert.lines is the number of
\* lines the bullet text wraps to
RECURSIVE certsLoop(_, _, _)
certsLoop(S, certifications, index) ==
  IF index > Len(certifications) THEN S
  ELSE certsLoop(
         totalAddRet(drawText(ensurePageSpace(S, mm(10)),
                              TagT("header", "CERTIFICATIONS", index,
                                   certTextPDF(certifications[index])),
                              certifications[index].lines, fontBody)),
         certifications, index + 1)

drawCertifications(S, certifications) ==
  IF Len(certifications) = 0 THEN returning(S, 0)
  ELSE returnTotal(
         bump(certsLoop(bump(totalFromRet(drawSectionTitle(S, "CERTIFICATIONS")),
                             bulletListSpacing),
                        certifications, 1),
              bulletListSpacing))

\* a summary / personalDetails string: undefined, empty (''), blank
\* (whitespace only) or text wrapping to .lines lines
\* !str
IsFalsy(str) == str.kind \in {"undefined", "empty"}

\* !(str && str.trim() !== '')
TrimIsEmpty(str) == str.kind \in {"undefined", "empty", "blank"}

drawProfessionalSummary(S, summary) ==
  IF IsFalsy(summary) THEN returning(S, 0)
  ELSE returnTotal(
         bump(totalAddRet(drawText(
                bump(totalFromRet(drawSectionTitle(S, "PROFESSIONAL SUMMARY")), mm(3)),
                Tag("paragraph", "PROFESSIONAL SUMMARY", 0), summary.lines, fontBody)),
              mm(3)))

\* addItems of drawAchievementsAndExtras; group is the position of the
\* sub-list among the labelled groups
addItems(S, group, items) ==
  IF Len(items) > 0
  THEN bump(drawBullets(drawText(ensurePageSpace(S, mm(10)),
                                 Tag("header", "ACHIEVEMENTS & EXTRAS", group), 1, fontBody),
                        "ACHIEVEMENTS & EXTRAS", group, items, 1),
            mm(2))
  ELSE S

\* if (hasPersonalDetails) { ... }
personalDetailsBlock(S, data) ==
  IF ~TrimIsEmpty(data.personalDetails)
  THEN bump(totalAddRet(drawText(
              drawText(ensurePageSpace(S, mm(10)),
                       Tag("header", "ACHIEVEMENTS & EXTRAS", 4), 1, fontBody),
              Tag("bullet", "ACHIEVEMENTS & EXTRAS", 4),
              data.personalDetails.lines, fontBody)),
            mm(2))
  ELSE S

drawAchievementsAndExtras(S, data) ==
  IF /\ ~(Len(data.achievements) > 0)
     /\ ~(Len(data.extraCurricularActivities) > 0)
     /\ ~(Len(data.languagesKnown) > 0)
     /\ ~(~TrimIsEmpty(data.personalDetails))
  THEN returning(S, 0)
  ELSE returnTotal(
         personalDetailsBlock(
           addItems(
             addItems(
               addItems(totalFromRet(drawSectionTitle(S, "ACHIEVEMENTS & EXTRAS")),
                        1, data.achievements),
               2, data.extraCurricularActivities),
             3, data.languagesKnown),
           data))

(***************************************************************************)
(* Word export and on-screen preview: the section titles, certification    *)
(* strings and sub-block labels they produce, in output order.             *)
(***************************************************************************)
Block(kind, sec, text) == [kind |-> kind, sec |-> sec, text |-> text]

certBlocksWord(certifications) ==
  [i \in 1..Len(certifications) |->
     Block("cert", "certifications", certTextWord(certifications[i]))]

certBlocksPreview(certifications) ==
  [i \in 1..Len(certifications) |->
     Block("cert", "certifications", certTextPreview(certifications[i]))]

subBlock(present, label) ==
  IF present THEN <<Block("subTitle", "achievementsAndExtras", <<label>>)>> ELSE << >>

\* data.personalDetails?.trim() !== ''  (undefined !== '' is true)
optTrimNotEmpty(str) == str.kind \in {"undefined", "text"}

wordSectionHtml(name, data, ut) ==
  CASE name = "summary" -> << >>
    [] name = "education" ->
         IF Len(data.education) > 0
         THEN <<Block("title", name, <<"EDUCATION">>)>> ELSE << >>
    [] name = "workExperience" ->
         IF Len(data.workExperience) > 0
         THEN <<Block("title", name,
                      <<IF ut = "fresher" THEN "WORK EXPERIENCE" ELSE "EXPERIENCE">>)>>
         ELSE << >>
    [] name = "projects" ->
         IF Len(data.projects) > 0
         THEN <<Block("title", name, <<"PROJECTS">>)>> ELSE << >>
    [] name = "skills" ->
         IF Len(data.skills) > 0
         THEN <<Block("title", name, <<"SKILLS">>)>> ELSE << >>
    [] name = "certifications" ->
         IF Len(data.certifications) > 0
         THEN <<Block("title", name, <<"CERTIFICATIONS">>)>>
              \o certBlocksWord(data.certifications)
         ELSE << >>
    [] name = "achievementsAndExtras" ->
         IF ut = "fresher" /\ (Len(data.achievements) > 0
                               \/ Len(data.extraCurricularActivities) > 0
                               \/ Len(data.languagesKnown) > 0
                               \/ optTrimNotEmpty(data.personalDetails))
         THEN <<Block("title", name, <<"ACHIEVEMENTS & EXTRAS">>)>>
              \o subBlock(Len(data.achievements) > 0, "Achievements:")
              \o subBlock(Len(data.extraCurricularActivities) > 0, "Extra-curricular Activities:")
              \o subBlock(Len(data.languagesKnown) > 0, "Languages Known:")
              \o subBlock(optTrimNotEmpty(data.personalDetails), "Personal Details:")
         ELSE << >>

\* sectionOrderHtml of generateWordHTMLContent
wordSectionOrder(ut) ==
  IF ut = "experienced"
  THEN <<"summary", "workExperience", "projects", "skills", "certifications", "education">>
  ELSE <<"summary", "education", "workExperience", "projects", "skills", "certifications",
         "achievementsAndExtras">>

RECURSIVE wordSections(_, _, _, _)
wordSections(order, k, data, ut) ==
  IF k > Len(order) THEN << >>
  ELSE wordSectionHtml(order[k], data, ut) \o wordSections(order, k + 1, data, ut)

generateWordHTMLContent(data, ut) == wordSections(wordSectionOrder(ut), 1, data, ut)

\* getSectionOrder of ResumePreview
getSectionOrder(ut) ==
  IF ut = "experienced"
  THEN <<"summary", "workExperience", "projects", "skills", "certifications", "education">>
  ELSE <<"summary", "education", "workExperience", "projects", "skills", "certifications",
         "achievementsAndExtras">>

renderSection(sectionName, data, ut) ==
  CASE sectionName = "summary" ->
         IF TrimIsEmpty(data.summary) THEN << >>
         ELSE <<Block("title", sectionName, <<"PROFESSIONAL SUMMARY">>)>>
    [] sectionName = "workExperience" ->
         IF Len(data.workExperience) = 0 THEN << >>
         ELSE <<Block("title", sectionName,
                      <<IF ut = "fresher" THEN "WORK EXPERIENCE" ELSE "EXPERIENCE">>)>>
    [] sectionName = "education" ->
         IF Len(data.education) = 0 THEN << >>
         ELSE <<Block("title", sectionName, <<"EDUCATION">>)>>
    [] sectionName = "projects" ->
         IF Len(data.projects) = 0 THEN << >>
         ELSE <<Block("title", sectionName,
                      <<IF ut = "fresher" THEN "ACADEMIC PROJECTS" ELSE "PROJECTS">>)>>
    [] sectionName = "skills" ->
         IF Len(data.skills) = 0 THEN << >>
         ELSE <<Block("title", sectionName, <<"TECHNICAL SKILLS">>)>>
    [] sectionName = "certifications" ->
         IF Len(data.certifications) = 0 THEN << >>
         ELSE <<Block("title", sectionName, <<"CERTIFICATIONS">>)>>
              \o certBlocksPreview(data.certifications)
    [] sectionName = "achievementsAndExtras" ->
         LET hasAchievements == Len(data.achievements) > 0
             hasExtraCurricular == Len(data.extraCurricularActivities) > 0
             hasLanguages == Len(data.languagesKnown) > 0
             hasPersonalDetails == ~TrimIsEmpty(data.personalDetails)
         IN  IF ~hasAchievements /\ ~hasExtraCurricular /\ ~hasLanguages /\ ~hasPersonalDetails
             THEN << >>
             ELSE <<Block("title", sectionName, <<"ACHIEVEMENTS & EXTRAS">>)>>
                  \o subBlock(hasAchievements, "Achievements:")
                  \o subBlock(hasExtraCurricular, "Extra-curricular Activities:")
                  \o subBlock(hasLanguages, "Languages Known:")
                  \o subBlock(hasPersonalDetails, "Personal Details:")

\* sectionOrder.map(sectionName => renderSection(sectionName))
RECURSIVE previewSections(_, _, _, _)
previewSections(order, k, data, ut) ==
  IF k > Len(order) THEN << >>
  ELSE renderSection(order[k], data, ut) \o previewSections(order, k + 1, data, ut)

ResumePreview(data, ut) == previewSections(getSectionOrder(ut), 1, data, ut)

(***************************************************************************)
(* Inputs.  A resume is built from: the set of list sections that are      *)
(* non-empty, the number of entries n of each, the size L (wrapped lines)  *)
(* of its long text blocks, its summary, its contact fields and its        *)
(* fresher extras.                                                         *)
(***************************************************************************)
ListSections == {"workExperience", "education", "projects", "skills", "certifications"}

LineChoices == {1, MaxLines \div 2, MaxLines}

Str(kind, lines) == [kind |-> kind, lines |-> lines]

SummaryChoices(L) == {Str("undefined", 0), Str("blank", 1), Str("text", L)}

ContactChoices == {{}, {"phone", "email", "github"}}

ExtrasChoices(L) ==
  { [achievements |-> << >>, extraCurricularActivities |-> << >>,
     languagesKnown |-> << >>, personalDetails |-> Str("undefined", 0)],
    [achievements |-> << >>, extraCurricularActivities |-> << >>,
     languagesKnown |-> << >>, personalDetails |-> Str("blank", 1)],
    [achievements |-> <<1, L>>, extraCurricularActivities |-> << >>,
     languagesKnown |-> << >>, personalDetails |-> Str("text", 2)],
    [achievements |-> <<1>>, extraCurricularActivities |-> <<L>>,
     languagesKnown |-> <<1, 1>>, personalDetails |-> Str("empty", 0)] }

JobOf(i, L) ==
  [role |-> IF i = 2 THEN 1 + (L \div 10) ELSE 1, company |-> 1,
   bullets |-> IF i % 2 = 1 THEN <<L, 1>> ELSE << >>]

EduOf(i, L) ==
  [degree |-> 1, school |-> 1, cgpa |-> i % 2,
   relevantCoursework |-> IF i = 1 THEN L ELSE 0]

ProjectOf(i, L) ==
  [title |-> 1, bullets |-> IF i % 2 = 1 THEN <<1, L>> ELSE <<2>>]

SkillOf(i, L) == [lines |-> IF i = 1 THEN 1 ELSE 1 + (L \div 20)]

CertShapes ==
  << [type |-> "object", str |-> "", fields |-> <<<<"title", "T">>, <<"description", "D">>>>],
     [type |-> "string", str |-> "S", fields |-> << >>],
     [type |-> "object", str |-> "",
      fields |-> <<<<"title", "T">>, <<"issuer", "I">>, <<"description", "D">>>>],
     [type |-> "object", str |-> "", fields |-> <<<<"name", "N">>>>],
     [type |-> "object", str |-> "", fields |-> <<<<"title", "T">>>>],
     [type |-> "object", str |-> "", fields |-> <<<<"id", "">>, <<"label", "X">>>>],
     [type |-> "other", str |-> "null", fields |-> << >>] >>

CertOf(i, L) ==
  LET shape == CertShapes[((i - 1) % Len(CertShapes)) + 1]
  IN  [type |-> shape.type, str |-> shape.str, fields |-> shape.fields,
       lines |-> IF i = 1 THEN 1 ELSE 1 + (L \div 4)]

\* a name or target role: its characters, and the lines it wraps to
Named(kind, chars) ==
  [kind |-> kind, lines |-> IF kind = "text" THEN 1 ELSE 0, chars |-> chars]

\* the number of entries of a list section
Count(sec, present, n) == IF sec \in present THEN n ELSE 0

MakeResume(present, n, L, summary, contact, extras) ==
  [name |-> Named("text", <<"J", " ", " ", "D">>),
   targetRole |-> Named("undefined", << >>),
   contact |-> contact, summary |-> summary,
   workExperience |-> [i \in 1..Count("workExperience", present, n) |-> JobOf(i, L)],
   education |-> [i \in 1..Count("education", present, n) |-> EduOf(i, L)],
   projects |-> [i \in 1..Count("projects", present, n) |-> ProjectOf(i, L)],
   skills |-> [i \in 1..Count("skills", present, n) |-> SkillOf(i, L)],
   certifications |-> [i \in 1..Count("certifications", present, n) |-> CertOf(i, L)],
   achievements |-> extras.achievements,
   extraCurricularActivities |-> extras.extraCurricularActivities,
   languagesKnown |-> extras.languagesKnown,
   personalDetails |-> extras.personalDetails]

ResumesOf(L) ==
  { MakeResume(present, n, L, summary, contact, extras) :
      present \in SUBSET ListSections, n \in 1..MaxEntries,
      summary \in SummaryChoices(L), contact \in ContactChoices,
      extras \in ExtrasChoices(L) }

NameChoices == {Named("text", <<"J", " ", " ", "D">>), Named("undefined", << >>)}

RoleChoices ==
  {Named("undefined", << >>), Named("empty", << >>), Named("text", <<"Q", " ", "A">>)}

\* resumes that differ in name and target role: one job, two pages
NamedResumes ==
  { [MakeResume({"workExperience"}, 1, MaxLines, Str("undefined", 0), {},
                [achievements |-> << >>, extraCurricularActivities |-> << >>,
                 languagesKnown |-> << >>, personalDetails |-> Str("undefined", 0)])
       EXCEPT !.name = name, !.targetRole = targetRole] :
      name \in NameChoices, targetRole \in RoleChoices }

Resumes == UNION {ResumesOf(L) : L \in LineChoices} \cup NamedResumes

\* what a step of the layout can throw: a TypeError of the program's own
\* property access, an Error of the document library whose message names
\* jsPDF, a value that is no Error
Thrown(isError, namesJsPDF) == [isError |-> isError, namesJsPDF |-> namesJsPDF]

TypeError == Thrown(TRUE, FALSE)

FaultChoices == {"none", "jsPDFError", "nonError"}

thrownOf(f) == IF f = "jsPDFError" THEN Thrown(TRUE, TRUE) ELSE Thrown(FALSE, FALSE)

(***************************************************************************)
(* File names and the rejection of a failed export.                        *)
(***************************************************************************)
\* s.replace(/\s+/g, '_') from position k: every run of whitespace becomes
\* one underscore
RECURSIVE replaceWhitespaceRuns(_, _)
replaceWhitespaceRuns(s, k) ==
  IF k > Len(s) THEN << >>
  ELSE IF s[k] = " "
       THEN (IF k > 1 /\ s[k - 1] = " " THEN << >> ELSE <<"_">>)
            \o replaceWhitespaceRuns(s, k + 1)
       ELSE <<s[k]>> \o replaceWhitespaceRuns(s, k + 1)

\* data.targetRole ? `_${data.targetRole.replace(/\s+/g, '_')}` : ''
rolePart(data) ==
  IF IsFalsy(data.targetRole) THEN << >>
  ELSE <<"_">> \o replaceWhitespaceRuns(data.targetRole.chars, 1)

\* the getFileName local to exportToPDF
exportToPDF_getFileName(data, fileExtension) ==
  replaceWhitespaceRuns(data.name.chars, 1) \o rolePart(data) \o <<".", fileExtension>>

\* the exported getFileName, used by exportToWord
getFileName(data, fileExtension) ==
  replaceWhitespaceRuns(data.name.chars, 1) \o rolePart(data)
  \o <<"_Resume", ".", fileExtension>>

PdfGenerationFailed ==
  "PDF generation failed. Please try again or contact support if the issue persists."

PdfCreationError == "An error occurred while creating the PDF. Please try again."

PdfUnexpectedError == "An unexpected error occurred while exporting PDF. Please try again."

\* variant: the catch block rethrows what it caught
rejectionMessageRethrow(error) ==
  IF error.isError
  THEN IF error.namesJsPDF THEN "jsPDF: invalid argument" ELSE "TypeError"
  ELSE "thrown value"

\* the catch block of exportToPDF: the message of the Error it throws
rejectionMessage(error) ==
  IF error.isError
  THEN IF error.namesJsPDF THEN PdfGenerationFailed ELSE PdfCreationError
  ELSE PdfUnexpectedError

NoOutcome == [files |-> << >>, error |-> "none"]

\* the event handlers waiting to call exportToPDF, and how many have run
NoHandlers == [queue |-> << >>, served |-> 0]

\* no coupon applied (appliedCoupon is null)
NoCoupon == [code |-> "none", discount |-> 0]

\* no service call in flight
NoCall == [fn |-> "none", planId |-> "weekly", coupon |-> NoCoupon, finalAmount |-> 0]

\* the component as first rendered by its parent, dialog closed
NoDialog ==
  [open |-> FALSE, user |-> FALSE, plans |-> <<"weekly", "monthly", "hourly">>,
   stablePlans |-> TRUE, selectedPlan |-> "weekly", couponCode |-> "",
   appliedCoupon |-> NoCoupon, couponError |-> "", isProcessing |-> FALSE,
   showCouponInput |-> FALSE, currentSlide |-> 1, freeTrialUsed |-> FALSE,
   historyPending |-> FALSE, pending |-> NoCall, runs |-> 0, callCount |-> 0,
   settled |-> 0, successes |-> 0, closed |-> 0, succeeded |-> 0,
   submitted |-> "none", lastClick |-> "none"]

\* useState<any>(null) of subscription
NoSubscription == [active |-> FALSE, optimizationsTotal |-> 0, optimizationsUsed |-> 0]

\* the optimizer page as first rendered
NoOptimizer ==
  [resumeText |-> "", jobDescription |-> "", user |-> FALSE,
   subscription |-> NoSubscription, isOptimizing |-> FALSE,
   showSubscriptionPlans |-> FALSE, at |-> "idle", alert |-> "none",
   lastEvent |-> "none", optimizedResume |-> "null", hasProjects |-> FALSE,
   initialResumeScore |-> FALSE, beforeScore |-> FALSE, afterScore |-> FALSE,
   activeTab |-> "resume", showProjectAnalysis |-> FALSE,
   showMissingSectionsModal |-> FALSE, showMobileInterface |-> FALSE,
   narrowWindow |-> FALSE, deducted |-> FALSE]

\* useState of exportStatus: { type: null, status: null, message: '' }
NoStatus == [type |-> "null", status |-> "null", message |-> ""]

\* ExportButtons as first rendered: its state, the flags the handlers of
\* the last render read (seen), the handlers suspended at an await
\* (awaiting), the timers set, and the last attempt with the status it set
NoButtons ==
  [isExportingPDF |-> FALSE, isExportingWord |-> FALSE, exportStatus |-> NoStatus,
   seenPDF |-> FALSE, seenWord |-> FALSE, awaiting |-> << >>, timers |-> 0,
   clicks |-> 0, attempt |-> [type |-> "null", rejection |-> "none", status |-> "null"]]

\* App and AuthModal as first rendered: showAuthModal and showMobileMenu
\* false, the view 'login'; timers holds the setTimeout callbacks not yet run, each with
\* the number of the opening of the modal (session) that scheduled it
NoAuth ==
  [showAuthModal |-> FALSE, currentView |-> "login", session |-> 0, timers |-> << >>,
   successes |-> 0, showMobileMenu |-> FALSE]

\* doc.save(fileName) / triggerMobileDownload(blob, fileName)
download(o, fileName) == [o EXCEPT !.files = Append(@, fileName)]

\* the promise of the export rejects with an Error carrying message
rejectWith(o, message) == [o EXCEPT !.error = message]

(***************************************************************************)
(* exportToPDF, one action per step of its body.                           *)
(***************************************************************************)
\* variant: the fresher order is used for every user type
sectionOrderFresherOnly(ut) ==
  <<"drawEducation", "drawWorkExperience", "drawProjects", "drawSkills",
    "drawCertifications", "drawAchievementsAndExtras">>

\* the order in which exportToPDF calls the section renderers
sectionOrder(ut) ==
  IF ut = "experienced"
  THEN <<"drawWorkExperience", "drawProjects", "drawSkills", "drawCertifications",
         "drawEducation">>
  ELSE <<"drawEducation", "drawWorkExperience", "drawProjects", "drawSkills",
         "drawCertifications", "drawAchievementsAndExtras">>

exportSteps(ut) ==
  <<"drawName", "drawContactInfo", "separator", "drawProfessionalSummary">>
  \o sectionOrder(ut) \o <<"pageNumbers", "save">>

At(at, step) == [at |-> at, step |-> step]

AtStep(name) ==
  /\ pc.at = "exportToPDF"
  /\ pc.step <= Len(exportSteps(userType))
  /\ exportSteps(userType)[pc.step] = name

Advance ==
  pc' = IF pc.step = Len(exportSteps(userType)) THEN At("done", 0)
        ELSE At("exportToPDF", pc.step + 1)

Init ==
  /\ resumeData \in Resumes
  /\ userType \in {"experienced", "fresher"}
  /\ state = NewPageState
  /\ pc = At("preview", 0)
  /\ result = [fn |-> "none", arg |-> 0, value |-> 0]
  /\ word = << >>
  /\ preview = << >>
  /\ outcome = NoOutcome
  /\ fault \in IF resumeData \in NamedResumes THEN FaultChoices ELSE {"none"}
  /\ handlers = NoHandlers
  /\ sub = NoDialog
  /\ optimizer = NoOptimizer
  /\ buttons = NoButtons
  /\ auth = NoAuth

\* ResumePreview renders the optimized resume above the export buttons
RenderPreview ==
  /\ pc.at = "preview"
  /\ preview' = IF IsFalsy(resumeData.name)
                THEN <<Block("invalid", "none", <<"Invalid resume data">>)>>
                ELSE ResumePreview(resumeData, userType)
  /\ pc' = At("idle", 0)
  /\ UNCHANGED <<state, resumeData, userType, result, word, outcome, fault, others>>

\* exportToWord: generateWordHTMLContent and the download
\* with no name getFileName throws before the try block is entered
WordExportFailed == "Word export failed. Please try again."

\* what the promise of exportToWord settles with: getFileName runs before
\* the try block, the HTML generation inside it
wordRejection(data, thrown) ==
  IF data.name.kind = "undefined" THEN "TypeError"
  ELSE IF thrown # "none" THEN WordExportFailed
  ELSE "none"

ExportToWord ==
  /\ pc.at = "idle"
  /\ IF wordRejection(resumeData, fault) # "none"
     THEN /\ outcome' = rejectWith(outcome, wordRejection(resumeData, fault))
          /\ word' = word
     ELSE /\ word' = generateWordHTMLContent(resumeData, userType)
          /\ outcome' = download(outcome, getFileName(resumeData, "doc"))
  /\ pc' = At("wordDone", 0)
  /\ UNCHANGED <<state, resumeData, userType, result, preview, fault, others>>

\* exportToPDF up to the name header: new document, new PageState, name
\* variant: one PageState kept at module level and used by every call
sharedPageState == state

\* const state: PageState = { currentPage: 1, currentY: margins.top, doc }
\* on a document made by new jsPDF(...)
createPageState == NewPageState

\* with no name resumeData.name.toUpperCase() throws a TypeError
DrawName ==
  /\ pc.at = "idle"
  /\ IF resumeData.name.kind = "undefined"
     THEN /\ state' = [createPageState EXCEPT !.currentY = nameFromTop]
          /\ pc' = At("rejected", 0)
          /\ outcome' = rejectWith(outcome, rejectionMessage(TypeError))
     ELSE /\ state' = bump(drawText([createPageState EXCEPT !.currentY = nameFromTop],
                                     Tag("name", "header", 0), resumeData.name.lines,
                                     fontName),
                            afterName)
          /\ pc' = At("exportToPDF", 2)
          /\ outcome' = outcome
  /\ UNCHANGED <<resumeData, userType, result, word, preview, fault, others>>

\* a call of the document library throws during the layout pass: the catch
\* block rethrows and doc.save is not reached
LayoutThrows ==
  /\ pc.at = "exportToPDF"
  /\ ~AtStep("save")
  /\ fault # "none"
  /\ outcome' = rejectWith(outcome, rejectionMessage(thrownOf(fault)))
  /\ pc' = At("rejected", 0)
  /\ UNCHANGED <<state, resumeData, userType, result, word, preview, fault, others>>

DrawContactInfo ==
  /\ AtStep("drawContactInfo")
  /\ state' = drawContactInfo(state, resumeData)
  /\ Advance
  /\ UNCHANGED <<resumeData, userType, result, word, preview, outcome, fault, others>>

DrawSeparator ==
  /\ AtStep("separator")
  /\ state' = bump(docLine(state, Tag("separator", "header", 0), state.currentY), mm(3))
  /\ Advance
  /\ UNCHANGED <<resumeData, userType, result, word, preview, outcome, fault, others>>

DrawProfessionalSummary ==
  /\ AtStep("drawProfessionalSummary")
  /\ state' = IF ~TrimIsEmpty(resumeData.summary)
              THEN drawProfessionalSummary(state, resumeData.summary)
              ELSE state
  /\ Advance
  /\ UNCHANGED <<resumeData, userType, result, word, preview, outcome, fault, others>>

DrawWorkExperience ==
  /\ AtStep("drawWorkExperience")
  /\ state' = drawWorkExperience(state, resumeData.workExperience, userType)
  /\ Advance
  /\ UNCHANGED <<resumeData, userType, result, word, preview, outcome, fault, others>>

DrawEducation ==
  /\ AtStep("drawEducation")
  /\ state' = drawEducation(state, resumeData.education)
  /\ Advance
  /\ UNCHANGED <<resumeData, userType, result, word, preview, outcome, fault, others>>

DrawProjects ==
  /\ AtStep("drawProjects")
  /\ state' = drawProjects(state, resumeData.projects)
  /\ Advance
  /\ UNCHANGED <<resumeData, userType, result, word, preview, outcome, fault, others>>

DrawSkills ==
  /\ AtStep("drawSkills")
  /\ state' = drawSkills(state, resumeData.skills)
  /\ Advance
  /\ UNCHANGED <<resumeData, userType, result, word, preview, outcome, fault, others>>

DrawCertifications ==
  /\ AtStep("drawCertifications")
  /\ state' = drawCertifications(state, resumeData.certifications)
  /\ Advance
  /\ UNCHANGED <<resumeData, userType, result, word, preview, outcome, fault, others>>

DrawAchievementsAndExtras ==
  /\ AtStep("drawAchievementsAndExtras")
  /\ state' = drawAchievementsAndExtras(state, resumeData)
  /\ Advance
  /\ UNCHANGED <<resumeData, userType, result, word, preview, outcome, fault, others>>

\* the page-number pass: for (i = 1; i <= totalPages; i++)
\* doc.text(`Page ${i} of ${totalPages}`, ...): entry is i, n is totalPages
footerText(S, i, totalPages) ==
  docDraw(S, "text", Tag("footer", "none", i), pageHeight - (marginBottom \div 2),
          totalPages, 0, S.currentY, S.currentPage)

RECURSIVE stampPages(_, _, _)
stampPages(S, i, totalPages) ==
  IF i > totalPages THEN S
  ELSE stampPages(footerText(IF i > 1 THEN docSetPage(S, i) ELSE S, i, totalPages),
                  i + 1, totalPages)

StampPageNumbers ==
  /\ AtStep("pageNumbers")
  /\ state' = IF state.currentPage > 1 THEN stampPages(state, 1, state.currentPage)
              ELSE state
  /\ Advance
  /\ UNCHANGED <<resumeData, userType, result, word, preview, outcome, fault, others>>

\* doc.save(fileName) / triggerMobileDownload
Save ==
  /\ AtStep("save")
  /\ outcome' = download(outcome, exportToPDF_getFileName(resumeData, "pdf"))
  /\ Advance
  /\ UNCHANGED <<state, resumeData, userType, result, word, preview, fault, others>>

Next ==
  \/ RenderPreview
  \/ ExportToWord
  \/ DrawName
  \/ LayoutThrows
  \/ DrawContactInfo
  \/ DrawSeparator
  \/ DrawProfessionalSummary
  \/ DrawWorkExperience
  \/ DrawEducation
  \/ DrawProjects
  \/ DrawSkills
  \/ DrawCertifications
  \/ DrawAchievementsAndExtras
  \/ StampPageNumbers
  \/ Save

Spec == Init /\ [][Next]_vars

(***************************************************************************)
(* Two exportToPDF calls from two event handlers.  exportToPDF holds no    *)
(* await: a handler that has started runs its whole body before the event  *)
(* loop takes the next handler from the queue.                             *)
(***************************************************************************)
Click(data, ut) == [data |-> data, ut |-> ut]

\* one page, two pages, three pages
ClickResumes ==
  { MakeResume({"skills"}, 1, 1, Str("text", 1), {"phone", "email", "github"},
               [achievements |-> << >>, extraCurricularActivities |-> << >>,
                languagesKnown |-> << >>, personalDetails |-> Str("undefined", 0)]),
    MakeResume({"workExperience", "education"}, 2, MaxLines \div 2,
               Str("undefined", 0), {},
               [achievements |-> <<1>>, extraCurricularActivities |-> << >>,
                languagesKnown |-> << >>, personalDetails |-> Str("text", 2)]),
    MakeResume({"workExperience", "education", "projects", "skills", "certifications"},
               2, MaxLines \div 4, Str("text", MaxLines \div 2), {},
               [achievements |-> << >>, extraCurricularActivities |-> << >>,
                languagesKnown |-> << >>, personalDetails |-> Str("undefined", 0)]) }

Clicks == {Click(data, ut) : data \in ClickResumes, ut \in {"experienced", "fresher"}}

InitTwo ==
  /\ handlers \in {[queue |-> <<a, b>>, served |-> 0] : a, b \in Clicks}
  /\ resumeData = handlers.queue[1].data
  /\ userType = handlers.queue[1].ut
  /\ state = NewPageState
  /\ pc = At("loop", 0)
  /\ result = [fn |-> "none", arg |-> 0, value |-> 0]
  /\ word = << >>
  /\ preview = << >>
  /\ outcome = NoOutcome
  /\ fault \in {"none", "nonError"}
  /\ sub = NoDialog
  /\ optimizer = NoOptimizer
  /\ buttons = NoButtons
  /\ auth = NoAuth

\* the event loop runs the next click handler: it calls exportToPDF with the
\* resume of that click
ClickExportPDF ==
  /\ pc.at \in {"loop", "done", "rejected"}
  /\ handlers.served < Len(handlers.queue)
  /\ handlers' = [handlers EXCEPT !.served = @ + 1]
  /\ resumeData' = handlers.queue[handlers.served + 1].data
  /\ userType' = handlers.queue[handlers.served + 1].ut
  /\ pc' = At("idle", 0)
  /\ UNCHANGED <<state, result, word, preview, outcome, fault, sub, optimizer,
                 buttons, auth>>

NextTwo ==
  \/ ClickExportPDF
  \/ DrawName
  \/ LayoutThrows
  \/ DrawContactInfo
  \/ DrawSeparator
  \/ DrawProfessionalSummary
  \/ DrawWorkExperience
  \/ DrawEducation
  \/ DrawProjects
  \/ DrawSkills
  \/ DrawCertifications
  \/ DrawAchievementsAndExtras
  \/ StampPageNumbers
  \/ Save

SpecTwo == InitTwo /\ [][NextTwo]_vars

(***************************************************************************)
(* SubscriptionPlans: the state of the component (useState), what the      *)
(* payment service answers, and what the component called.                 *)
(***************************************************************************)
\* paymentService.getPlans(): the order of the plan cards
PlanOrders ==
  { <<"weekly", "monthly", "hourly">>,
    <<"hourly", "weekly", "monthly">> }

\* plan.price of the plan with this id
priceOf(planId) ==
  CASE planId = "hourly" -> 19
    [] planId = "weekly" -> 199
    [] planId = "monthly" -> 499

\* what the coupon input can hold
CodeChoices == {"", "freetrial", "FREETRIAL ", "SAVE10"}

\* String.prototype.trim on the codes of the model
trim(code) ==
  CASE code = "FREETRIAL " -> "FREETRIAL"
    [] OTHER -> code

\* String.prototype.toUpperCase on the codes of the model
toUpperCase(code) ==
  CASE code = "freetrial" -> "FREETRIAL"
    [] OTHER -> code

PleaseEnterCode == "Please enter a coupon code"

OnlyHourly == "FREETRIAL coupon is only valid for the 1-Hour Plan"

AlreadyUsed ==
  "You have already used the FREETRIAL coupon. This is a one-time offer only."

\* paymentService.calculateDiscount(amount, coupon): a percentage of amount
calculateDiscount(amount, coupon) == (amount * coupon.discount) \div 100

\* the answers paymentService.validateCoupon(code, price, planId) can give:
\* never a valid FREETRIAL for another plan than the hourly one
Validations(code, planId) ==
  {[valid |-> FALSE, coupon |-> NoCoupon, error |-> "Invalid coupon code"]}
  \cup (IF toUpperCase(code) = "FREETRIAL"
        THEN IF planId = "hourly"
             THEN {[valid |-> TRUE, coupon |-> [code |-> "FREETRIAL", discount |-> 100],
                    error |-> ""]}
             ELSE {}
        ELSE {[valid |-> TRUE, coupon |-> [code |-> toUpperCase(code), discount |-> d],
               error |-> ""] : d \in {10, 120}})

\* useEffect(() => setSelectedPlan(plans[currentSlide]?.id || 'weekly'),
\* [currentSlide, plans]) after the render that follows a change from old
\* to s: it runs when currentSlide changed, and after every render when
\* getPlans() returns a new array each time
selectedPlanEffect(s, old) ==
  IF s.currentSlide # old.currentSlide \/ ~s.stablePlans
  THEN [s EXCEPT !.selectedPlan = s.plans[s.currentSlide + 1]]
  ELSE s

\* which button the last click was on, for the clicks that apply a coupon
clicked(s, name) == [s EXCEPT !.lastClick = name]

\* any other event: no code was submitted by it
otherEvent(s) == [s EXCEPT !.lastClick = "other", !.submitted = "none"]

nextSlide(s) == [s EXCEPT !.currentSlide = (@ + 1) % Len(s.plans)]

prevSlide(s) == [s EXCEPT !.currentSlide = (@ - 1 + Len(s.plans)) % Len(s.plans)]

goToSlide(s, index) == [s EXCEPT !.currentSlide = index]

\* applyCoupon(): couponCode, selectedPlan and freeTrialUsed are those of the
\* render the handler was created in; validation is the service's answer
applyCoupon(s, validation) ==
  IF trim(s.couponCode) = ""
  THEN [s EXCEPT !.couponError = PleaseEnterCode, !.submitted = "none"]
  ELSE IF toUpperCase(s.couponCode) = "FREETRIAL" /\ s.selectedPlan # "hourly"
  THEN [s EXCEPT !.couponError = OnlyHourly, !.appliedCoupon = NoCoupon,
                 !.submitted = "none"]
  ELSE IF toUpperCase(s.couponCode) = "FREETRIAL" /\ s.freeTrialUsed
  THEN [s EXCEPT !.couponError = AlreadyUsed, !.appliedCoupon = NoCoupon,
                 !.submitted = "none"]
  ELSE IF ~validation.valid
  THEN [s EXCEPT !.couponError = validation.error, !.appliedCoupon = NoCoupon,
                 !.submitted = trim(s.couponCode)]
  ELSE [s EXCEPT !.appliedCoupon = validation.coupon, !.couponError = "",
                 !.showCouponInput = FALSE, !.submitted = trim(s.couponCode)]

\* setCouponCode and setShowCouponInput of the free-trial button, applied to
\* a, the state applyCoupon() left
freeTrialSetters(a) ==
  [a EXCEPT !.couponCode = "FREETRIAL",
            !.showCouponInput = (a.appliedCoupon = NoCoupon)]

removeCoupon(s) ==
  [s EXCEPT !.appliedCoupon = NoCoupon, !.couponCode = "", !.couponError = ""]

\* variant: the amount is not floored at 0
calculateFinalAmountNoFloor(s) ==
  IF s.appliedCoupon # NoCoupon
  THEN priceOf(s.selectedPlan) - calculateDiscount(priceOf(s.selectedPlan), s.appliedCoupon)
  ELSE priceOf(s.selectedPlan)

calculateFinalAmount(s) ==
  IF s.appliedCoupon # NoCoupon
  THEN IF priceOf(s.selectedPlan)
            - calculateDiscount(priceOf(s.selectedPlan), s.appliedCoupon) > 0
       THEN priceOf(s.selectedPlan)
            - calculateDiscount(priceOf(s.selectedPlan), s.appliedCoupon)
       ELSE 0
  ELSE priceOf(s.selectedPlan)

\* the service call handlePayment makes, with what it passes
serviceCall(s, fn) ==
  [fn |-> fn, planId |-> s.selectedPlan, coupon |-> s.appliedCoupon,
   finalAmount |-> calculateFinalAmount(s)]

\* handlePayment up to its await
handlePayment(s) ==
  IF ~s.user THEN s
  ELSE IF calculateFinalAmount(s) = 0
  THEN [s EXCEPT !.isProcessing = TRUE, !.runs = @ + 1, !.callCount = @ + 1,
                 !.pending = serviceCall(s, "createFreeSubscription")]
  ELSE [s EXCEPT !.isProcessing = TRUE, !.runs = @ + 1, !.callCount = @ + 1,
                 !.pending = serviceCall(s, "processPayment")]

\* handlePayment from the point its await settles: r is what the service
\* call gave (success, a failure result, or a throw)
paymentSettled(s, r) ==
  IF r = "success"
  THEN [s EXCEPT !.pending = NoCall, !.isProcessing = FALSE, !.settled = @ + 1,
                 !.successes = @ + 1, !.closed = @ + 1, !.succeeded = @ + 1,
                 !.open = FALSE]
  ELSE [s EXCEPT !.pending = NoCall, !.isProcessing = FALSE, !.settled = @ + 1]

InitPlans ==
  /\ sub \in {[NoDialog EXCEPT !.open = TRUE, !.user = user, !.plans = plans,
                              !.stablePlans = stable, !.selectedPlan = plans[2],
                              !.historyPending = user] :
                user \in BOOLEAN, plans \in PlanOrders, stable \in BOOLEAN}
  /\ resumeData \in NamedResumes /\ resumeData.name.kind = "text"
  /\ resumeData.targetRole.kind = "undefined"
  /\ userType = "experienced"
  /\ state = NewPageState
  /\ pc = At("plans", 0)
  /\ result = [fn |-> "none", arg |-> 0, value |-> 0]
  /\ word = << >>
  /\ preview = << >>
  /\ outcome = NoOutcome
  /\ fault = "none"
  /\ handlers = NoHandlers
  /\ optimizer = NoOptimizer
  /\ buttons = NoButtons
  /\ auth = NoAuth

\* checkFreeTrialUsage: getSubscriptionHistory resolves with a history that
\* holds a FREETRIAL subscription or not
FreeTrialChecked ==
  /\ sub.historyPending
  /\ \E hasUsedFreeTrial \in BOOLEAN :
       sub' = selectedPlanEffect(
                otherEvent([sub EXCEPT !.historyPending = FALSE,
                                       !.freeTrialUsed = hasUsedFreeTrial]),
                sub)
  /\ UNCHANGED <<state, pc, resumeData, userType, result, word, preview, outcome, fault,
                 handlers, optimizer, buttons, auth>>

\* a plan card of the carousel or of the grid is clicked
ClickPlanCard ==
  /\ sub.open
  /\ \E index \in 1..Len(sub.plans) :
       sub' = selectedPlanEffect(
                otherEvent([sub EXCEPT !.selectedPlan = sub.plans[index]]), sub)
  /\ UNCHANGED <<state, pc, resumeData, userType, result, word, preview, outcome, fault,
                 handlers, optimizer, buttons, auth>>

\* the carousel arrows and dots
MoveCarousel ==
  /\ sub.open
  /\ \/ sub' = selectedPlanEffect(otherEvent(nextSlide(sub)), sub)
     \/ sub' = selectedPlanEffect(otherEvent(prevSlide(sub)), sub)
     \/ \E index \in 0..(Len(sub.plans) - 1) :
          sub' = selectedPlanEffect(otherEvent(goToSlide(sub, index)), sub)
  /\ UNCHANGED <<state, pc, resumeData, userType, result, word, preview, outcome, fault,
                 handlers, optimizer, buttons, auth>>

\* the Apply Coupon / Cancel buttons that show and hide the input
ToggleCouponInput ==
  /\ sub.open
  /\ sub.appliedCoupon = NoCoupon
  /\ sub' = selectedPlanEffect(
              otherEvent([sub EXCEPT !.showCouponInput = ~@]), sub)
  /\ UNCHANGED <<state, pc, resumeData, userType, result, word, preview, outcome, fault,
                 handlers, optimizer, buttons, auth>>

\* typing in the coupon input
TypeCouponCode ==
  /\ sub.open
  /\ sub.showCouponInput
  /\ sub.appliedCoupon = NoCoupon
  /\ \E code \in CodeChoices :
       sub' = selectedPlanEffect(otherEvent([sub EXCEPT !.couponCode = code]), sub)
  /\ UNCHANGED <<state, pc, resumeData, userType, result, word, preview, outcome, fault,
                 handlers, optimizer, buttons, auth>>

\* the Apply button next to the input
ClickApply ==
  /\ sub.open
  /\ sub.showCouponInput
  /\ sub.appliedCoupon = NoCoupon
  /\ \E validation \in Validations(trim(sub.couponCode), sub.selectedPlan) :
       sub' = selectedPlanEffect(clicked(applyCoupon(sub, validation), "apply"), sub)
  /\ UNCHANGED <<state, pc, resumeData, userType, result, word, preview, outcome, fault,
                 handlers, optimizer, buttons, auth>>

\* the Apply FREETRIAL Coupon button: setCouponCode('FREETRIAL');
\* setShowCouponInput(true); applyCoupon();
ClickApplyFreeTrial ==
  /\ sub.open
  /\ sub.selectedPlan = "hourly"
  /\ sub.appliedCoupon = NoCoupon
  /\ ~sub.freeTrialUsed
  /\ \E validation \in Validations(trim(sub.couponCode), sub.selectedPlan) :
       sub' = selectedPlanEffect(
                clicked(freeTrialSetters(applyCoupon(sub, validation)), "applyFreeTrial"),
                sub)
  /\ UNCHANGED <<state, pc, resumeData, userType, result, word, preview, outcome, fault,
                 handlers, optimizer, buttons, auth>>

ClickRemoveCoupon ==
  /\ sub.open
  /\ sub.appliedCoupon # NoCoupon
  /\ sub' = selectedPlanEffect(otherEvent(removeCoupon(sub)), sub)
  /\ UNCHANGED <<state, pc, resumeData, userType, result, word, preview, outcome, fault,
                 handlers, optimizer, buttons, auth>>

\* the payment button (disabled while isProcessing)
ClickPay ==
  /\ sub.open
  /\ ~sub.isProcessing
  /\ sub.runs < MaxRuns
  /\ sub' = selectedPlanEffect(otherEvent(handlePayment(sub)), sub)
  /\ UNCHANGED <<state, pc, resumeData, userType, result, word, preview, outcome, fault,
                 handlers, optimizer, buttons, auth>>

\* createFreeSubscription / processPayment settles
PaymentSettles ==
  /\ sub.pending # NoCall
  /\ \E r \in {"success", "failure", "throws"} :
       sub' = selectedPlanEffect(otherEvent(paymentSettled(sub, r)), sub)
  /\ UNCHANGED <<state, pc, resumeData, userType, result, word, preview, outcome, fault,
                 handlers, optimizer, buttons, auth>>

\* the backdrop or the close button: onClose()
CloseDialog ==
  /\ sub.open
  /\ sub' = otherEvent([sub EXCEPT !.open = FALSE])
  /\ UNCHANGED <<state, pc, resumeData, userType, result, word, preview, outcome, fault,
                 handlers, optimizer, buttons, auth>>

NextPlans ==
  \/ FreeTrialChecked
  \/ ClickPlanCard
  \/ MoveCarousel
  \/ ToggleCouponInput
  \/ TypeCouponCode
  \/ ClickApply
  \/ ClickApplyFreeTrial
  \/ ClickRemoveCoupon
  \/ ClickPay
  \/ PaymentSettles
  \/ CloseDialog

SpecPlans == InitPlans /\ [][NextPlans]_vars

(***************************************************************************)
(* ResumeOptimizer.handleOptimize and the events around it.                *)
(***************************************************************************)
exportVars == <<state, pc, resumeData, userType, result, word, preview, outcome, fault>>

\* what the resume and job description inputs can hold
TextChoices == {"", " ", "text"}

\* String.prototype.trim on the texts of the model
trimText(text) == IF text = " " THEN "" ELSE text

\* what paymentService.getUserSubscription can resolve with
Subscriptions ==
  {NoSubscription}
  \cup {[active |-> TRUE, optimizationsTotal |-> total, optimizationsUsed |-> used] :
          total \in {0, MaxOptimizations}, used \in 0..(MaxOptimizations + 1)}

BothRequired == "Please provide both resume content and job description"

SignInAgain == "User information not available. Please sign in again."

AllUsed == "You have used all your optimizations. Please upgrade your plan."

OptimizeFailed == "Failed to optimize resume. Please try again."

ProcessFailed == "Failed to process resume. Please try again."

event(o, name) == [o EXCEPT !.lastEvent = name]

\* variant: the check of the remaining optimizations lets 0 through
handleOptimizeAtZero(o) ==
  IF trimText(o.resumeText) = "" \/ trimText(o.jobDescription) = ""
  THEN [o EXCEPT !.alert = BothRequired]
  ELSE IF ~o.user
  THEN [o EXCEPT !.alert = SignInAgain]
  ELSE IF ~o.subscription.active
  THEN [o EXCEPT !.showSubscriptionPlans = TRUE]
  ELSE IF o.subscription.optimizationsTotal - o.subscription.optimizationsUsed < 0
  THEN [o EXCEPT !.alert = AllUsed, !.showSubscriptionPlans = TRUE]
  ELSE [o EXCEPT !.isOptimizing = TRUE, !.at = "optimizeResume", !.deducted = FALSE]

\* handleOptimize up to await optimizeResume(...)
handleOptimize(o) ==
  IF trimText(o.resumeText) = "" \/ trimText(o.jobDescription) = ""
  THEN [o EXCEPT !.alert = BothRequired]
  ELSE IF ~o.user
  THEN [o EXCEPT !.alert = SignInAgain]
  ELSE IF ~o.subscription.active
  THEN [o EXCEPT !.showSubscriptionPlans = TRUE]
  ELSE IF o.subscription.optimizationsTotal - o.subscription.optimizationsUsed <= 0
  THEN [o EXCEPT !.alert = AllUsed, !.showSubscriptionPlans = TRUE]
  ELSE [o EXCEPT !.isOptimizing = TRUE, !.at = "optimizeResume", !.deducted = FALSE]

\* handleOptimize from the point optimizeResume settled: it threw, gave a
\* resume with missing sections (checkForMissingSections), or gave a complete
\* one, which has projects (then continueOptimizationProcess awaits the score)
optimizeResumeSettled(o, r) ==
  IF r = "throws"
  THEN [o EXCEPT !.alert = OptimizeFailed, !.isOptimizing = FALSE, !.at = "idle"]
  ELSE IF r = "missing"
  THEN [o EXCEPT !.showMissingSectionsModal = TRUE, !.isOptimizing = FALSE, !.at = "idle"]
  ELSE [o EXCEPT !.hasProjects = TRUE, !.at = "getDetailedResumeScore"]

\* handleMissingSectionsProvided up to the await in
\* handleInitialResumeProcessing: the updated resume has projects or not
handleMissingSectionsProvided(o, hasProjects) ==
  [o EXCEPT !.showMissingSectionsModal = FALSE, !.hasProjects = hasProjects,
            !.at = "getDetailedResumeScore"]

\* proceedWithFinalOptimization up to await optimizeResume(...) in
\* proceedWithOptimization
proceedWithFinalOptimization(o) == [o EXCEPT !.isOptimizing = TRUE, !.at = "finalPass"]

\* handleInitialResumeProcessing from the point getDetailedResumeScore
\* settled; with projects the callers' finally blocks follow
scoreSettled(o, r) ==
  IF r = "throws"
  THEN [o EXCEPT !.alert = ProcessFailed, !.isOptimizing = FALSE, !.at = "idle"]
  ELSE IF o.hasProjects
  THEN [o EXCEPT !.initialResumeScore = TRUE, !.optimizedResume = "parsed",
                 !.showProjectAnalysis = TRUE, !.isOptimizing = FALSE, !.at = "idle"]
  ELSE proceedWithFinalOptimization(
         [o EXCEPT !.initialResumeScore = TRUE, !.optimizedResume = "parsed"])

\* generateScoresAfterProjectAdd (no initial score, so nothing is awaited)
generateScoresAfterProjectAdd(o) ==
  [o EXCEPT !.beforeScore = TRUE, !.afterScore = TRUE,
            !.showMobileInterface = IF o.narrowWindow THEN TRUE ELSE @]

\* onProjectsUpdated of the project analysis dialog
handleProjectsUpdated(o) ==
  IF o.initialResumeScore
  THEN proceedWithFinalOptimization([o EXCEPT !.optimizedResume = "parsed"])
  ELSE generateScoresAfterProjectAdd([o EXCEPT !.optimizedResume = "parsed"])

\* proceedWithOptimization from the point optimizeResume settled
finalPassSettled(o, r) ==
  IF r = "throws"
  THEN [o EXCEPT !.alert = OptimizeFailed, !.isOptimizing = FALSE, !.at = "idle"]
  ELSE [o EXCEPT !.beforeScore = TRUE, !.optimizedResume = "final", !.afterScore = TRUE,
                 !.at = "finalScore"]

\* proceedWithOptimization from the point the final getDetailedResumeScore
\* settled, up to await paymentService.useOptimization(user.id)
finalScoreSettled(o, r) ==
  IF r = "throws" \/ ~o.user
  THEN [o EXCEPT !.alert = OptimizeFailed, !.isOptimizing = FALSE, !.at = "idle"]
  ELSE [o EXCEPT !.deducted = TRUE, !.at = "useOptimization"]

\* proceedWithOptimization from the point useOptimization settled
useOptimizationSettled(o, r, userSubscription) ==
  IF r = "throws"
  THEN [o EXCEPT !.alert = OptimizeFailed, !.isOptimizing = FALSE, !.at = "idle"]
  ELSE [o EXCEPT !.subscription = IF r = "success" THEN userSubscription ELSE @,
                 !.showMobileInterface = IF o.narrowWindow THEN TRUE ELSE @,
                 !.isOptimizing = FALSE, !.at = "idle"]

handleStartNewResume(o) ==
  [o EXCEPT !.optimizedResume = "null", !.resumeText = "", !.jobDescription = "",
            !.beforeScore = FALSE, !.afterScore = FALSE, !.initialResumeScore = FALSE,
            !.hasProjects = FALSE, !.activeTab = "resume"]

\* a dialog lies over the page
DialogOpen(o) ==
  o.showProjectAnalysis \/ o.showMissingSectionsModal \/ o.showSubscriptionPlans

\* the render reaches the input form (!optimizedResume)
FormShown(o) ==
  ~o.isOptimizing /\ o.optimizedResume = "null"

\* the render reaches the tabs with the optimized resume
TabsShown(o) ==
  /\ ~o.isOptimizing
  /\ o.optimizedResume # "null"
  /\ ~o.showMobileInterface

InitOptimize ==
  /\ optimizer \in {[NoOptimizer EXCEPT !.user = user, !.narrowWindow = narrow] :
                      user \in BOOLEAN, narrow \in BOOLEAN}
  /\ sub = NoDialog
  /\ resumeData \in NamedResumes /\ resumeData.name.kind = "text"
  /\ resumeData.targetRole.kind = "undefined"
  /\ userType = "experienced"
  /\ state = NewPageState
  /\ pc = At("optimizer", 0)
  /\ result = [fn |-> "none", arg |-> 0, value |-> 0]
  /\ word = << >>
  /\ preview = << >>
  /\ outcome = NoOutcome
  /\ fault = "none"
  /\ handlers = NoHandlers
  /\ buttons = NoButtons
  /\ auth = NoAuth

\* the form is on screen only while there is no optimized resume and
\* isOptimizing is false
EditInputs ==
  /\ FormShown(optimizer)
  /\ ~DialogOpen(optimizer)
  /\ \E resumeText \in TextChoices, jobDescription \in TextChoices :
       optimizer' = event([optimizer EXCEPT !.resumeText = resumeText,
                                            !.jobDescription = jobDescription], "edit")
  /\ UNCHANGED <<exportVars, handlers, sub, buttons, auth>>

\* useAuth: the user signs in or out
UserChanges ==
  /\ optimizer' = event([optimizer EXCEPT !.user = ~@], "auth")
  /\ UNCHANGED <<exportVars, handlers, sub, buttons, auth>>

\* checkSubscriptionStatus: getUserSubscription resolves
SubscriptionLoaded ==
  /\ optimizer.user
  /\ \E userSubscription \in Subscriptions :
       optimizer' = event([optimizer EXCEPT !.subscription = userSubscription],
                          "subscription")
  /\ UNCHANGED <<exportVars, handlers, sub, buttons, auth>>

\* the Optimize button calls handleOptimize
ClickOptimize ==
  /\ FormShown(optimizer)
  /\ ~DialogOpen(optimizer)
  /\ optimizer.at = "idle"
  /\ optimizer' = event(handleOptimize([optimizer EXCEPT !.alert = "none"]),
                        "handleOptimize")
  /\ UNCHANGED <<exportVars, handlers, sub, buttons, auth>>

OptimizeResumeSettles ==
  /\ optimizer.at = "optimizeResume"
  /\ \E r \in {"throws", "missing", "complete"} :
       optimizer' = event(optimizeResumeSettled(optimizer, r), "settled")
  /\ UNCHANGED <<exportVars, handlers, sub, buttons, auth>>

\* the missing sections dialog: sections provided, or closed
MissingSectionsAnswered ==
  /\ optimizer.showMissingSectionsModal
  /\ optimizer.at = "idle"
  /\ \/ \E hasProjects \in BOOLEAN :
          optimizer' = event(handleMissingSectionsProvided(optimizer, hasProjects),
                             "missingProvided")
     \/ optimizer' = event([optimizer EXCEPT !.showMissingSectionsModal = FALSE,
                                             !.isOptimizing = FALSE], "missingClosed")
  /\ UNCHANGED <<exportVars, handlers, sub, buttons, auth>>

ScoreSettles ==
  /\ optimizer.at = "getDetailedResumeScore"
  /\ \E r \in {"throws", "score"} :
       optimizer' = event(scoreSettled(optimizer, r), "settled")
  /\ UNCHANGED <<exportVars, handlers, sub, buttons, auth>>

\* the project analysis dialog: projects updated, or closed
ProjectAnalysisAnswered ==
  /\ optimizer.showProjectAnalysis
  /\ optimizer.at = "idle"
  /\ \/ optimizer' = event(handleProjectsUpdated(
                             [optimizer EXCEPT !.showProjectAnalysis = FALSE]),
                           "projectsUpdated")
     \/ optimizer' = event([optimizer EXCEPT !.showProjectAnalysis = FALSE],
                           "projectsClosed")
  /\ UNCHANGED <<exportVars, handlers, sub, buttons, auth>>

FinalPassSettles ==
  /\ optimizer.at = "finalPass"
  /\ \E r \in {"throws", "resume"} :
       optimizer' = event(finalPassSettled(optimizer, r), "settled")
  /\ UNCHANGED <<exportVars, handlers, sub, buttons, auth>>

FinalScoreSettles ==
  /\ optimizer.at = "finalScore"
  /\ \E r \in {"throws", "score"} :
       optimizer' = event(finalScoreSettled(optimizer, r), "settled")
  /\ UNCHANGED <<exportVars, handlers, sub, buttons, auth>>

\* useOptimization settles; after a success checkSubscriptionStatus loads
\* the subscription again
UseOptimizationSettles ==
  /\ optimizer.at = "useOptimization"
  /\ \E r \in {"throws", "failure", "success"}, userSubscription \in Subscriptions :
       optimizer' = event(useOptimizationSettled(optimizer, r, userSubscription),
                          "settled")
  /\ UNCHANGED <<exportVars, handlers, sub, buttons, auth>>

\* the Resume Preview / Score Analysis buttons
SetActiveTab ==
  /\ TabsShown(optimizer)
  /\ ~DialogOpen(optimizer)
  /\ \E tab \in {"resume", "analysis"} :
       optimizer' = event([optimizer EXCEPT !.activeTab = tab], "tab")
  /\ UNCHANGED <<exportVars, handlers, sub, buttons, auth>>

\* the Create New Resume button
StartNewResume ==
  /\ TabsShown(optimizer)
  /\ ~DialogOpen(optimizer)
  /\ optimizer.at = "idle"
  /\ optimizer' = event(handleStartNewResume(optimizer), "startNew")
  /\ UNCHANGED <<exportVars, handlers, sub, buttons, auth>>

\* onClose of the subscription plans dialog
ClosePlans ==
  /\ optimizer.showSubscriptionPlans
  /\ optimizer' = event([optimizer EXCEPT !.showSubscriptionPlans = FALSE], "closePlans")
  /\ UNCHANGED <<exportVars, handlers, sub, buttons, auth>>

NextOptimize ==
  \/ EditInputs
  \/ UserChanges
  \/ SubscriptionLoaded
  \/ ClickOptimize
  \/ OptimizeResumeSettles
  \/ MissingSectionsAnswered
  \/ ScoreSettles
  \/ ProjectAnalysisAnswered
  \/ FinalPassSettles
  \/ FinalScoreSettles
  \/ UseOptimizationSettles
  \/ SetActiveTab
  \/ StartNewResume
  \/ ClosePlans

SpecOptimize == InitOptimize /\ [][NextOptimize]_vars

(***************************************************************************)
(* ExportButtons.  exportToPDF and exportToWord contain no await, so a     *)
(* call runs to its end inside the click handler and returns a settled     *)
(* promise; the part of handleExportPDF after its await runs as a          *)
(* microtask, before the event loop delivers another click.                *)
(***************************************************************************)
PdfExportFailed == "PDF export failed. Please try again."

\* what the promise of exportToPDF settles with
pdfRejection(data, thrown) ==
  IF data.name.kind = "undefined" THEN rejectionMessage(TypeError)
  ELSE IF thrown # "none" THEN rejectionMessage(thrownOf(thrown))
  ELSE "none"

Status(type, status, message) == [type |-> type, status |-> status, message |-> message]

\* variant: a click is delivered while a handler is still suspended
clickDeliverableAnyTime(b) == TRUE

\* the event loop takes the next click when the microtask queue is empty
clickDeliverable(b) == b.awaiting = << >>

\* handleExportPDF up to await exportToPDF(...): rejection is what the
\* promise settles with
handleExportPDF(b, rejection) ==
  IF b.seenPDF \/ b.seenWord THEN b
  ELSE [b EXCEPT !.isExportingPDF = TRUE, !.exportStatus = NoStatus,
                 !.awaiting = Append(@, rejection),
                 !.attempt = [type |-> "pdf", rejection |-> rejection, status |-> "null"]]

\* handleExportPDF after the await: try, catch, finally
pdfSettled(b) ==
  [b EXCEPT !.exportStatus = IF Head(b.awaiting) = "none"
                             THEN Status("pdf", "success", "PDF exported successfully!")
                             ELSE Status("pdf", "error", PdfExportFailed),
            !.attempt.status = IF Head(b.awaiting) = "none" THEN "success" ELSE "error",
            !.timers = @ + 1, !.isExportingPDF = FALSE, !.awaiting = Tail(@)]

\* handleExportWord: exportToWord(...) is called without await, so the
\* try block goes on whatever the promise settles with
handleExportWord(b, rejection) ==
  IF b.seenWord \/ b.seenPDF THEN b
  ELSE [b EXCEPT !.exportStatus = Status("word", "success",
                                         "Word document exported successfully!"),
                 !.timers = @ + 1, !.isExportingWord = FALSE,
                 !.attempt = [type |-> "word", rejection |-> rejection,
                              status |-> "success"]]

\* the handler passed its guard and called the export function
started(b) == ~(b.seenPDF \/ b.seenWord)

InitButtons ==
  /\ buttons = NoButtons
  /\ auth = NoAuth
  /\ resumeData \in NamedResumes
  /\ fault \in FaultChoices
  /\ userType = "experienced"
  /\ state = NewPageState
  /\ pc = At("buttons", 0)
  /\ result = [fn |-> "none", arg |-> 0, value |-> 0]
  /\ word = << >>
  /\ preview = << >>
  /\ outcome = NoOutcome
  /\ handlers = NoHandlers
  /\ sub = NoDialog
  /\ optimizer = NoOptimizer

\* a click on Export as PDF
ClickPDFButton ==
  /\ clickDeliverable(buttons)
  /\ buttons.clicks < MaxRuns
  /\ buttons' = [handleExportPDF(buttons, pdfRejection(resumeData, fault))
                   EXCEPT !.clicks = @ + 1]
  /\ outcome' = IF ~started(buttons) THEN outcome
                ELSE IF pdfRejection(resumeData, fault) # "none"
                THEN rejectWith(outcome, pdfRejection(resumeData, fault))
                ELSE download(outcome, exportToPDF_getFileName(resumeData, "pdf"))
  /\ UNCHANGED <<state, pc, resumeData, userType, result, word, preview, fault,
                 handlers, sub, optimizer, auth>>

\* the microtask that resumes handleExportPDF
PdfExportSettles ==
  /\ buttons.awaiting # << >>
  /\ buttons' = pdfSettled(buttons)
  /\ UNCHANGED <<exportVars, handlers, sub, optimizer, auth>>

\* a click on Export as Word
ClickWordButton ==
  /\ clickDeliverable(buttons)
  /\ buttons.clicks < MaxRuns
  /\ buttons' = [handleExportWord(buttons, wordRejection(resumeData, fault))
                   EXCEPT !.clicks = @ + 1]
  /\ outcome' = IF ~started(buttons) THEN outcome
                ELSE IF wordRejection(resumeData, fault) # "none"
                THEN rejectWith(outcome, wordRejection(resumeData, fault))
                ELSE download(outcome, getFileName(resumeData, "doc"))
  /\ word' = IF started(buttons) /\ wordRejection(resumeData, fault) = "none"
             THEN generateWordHTMLContent(resumeData, userType) ELSE word
  /\ UNCHANGED <<state, pc, resumeData, userType, result, preview, fault,
                 handlers, sub, optimizer, auth>>

\* React renders the component: the handlers now read the current flags
RenderButtons ==
  /\ buttons' = [buttons EXCEPT !.seenPDF = buttons.isExportingPDF,
                                !.seenWord = buttons.isExportingWord]
  /\ UNCHANGED <<exportVars, handlers, sub, optimizer, auth>>

\* a setTimeout of 3 or 5 seconds clears the status
StatusTimerFires ==
  /\ buttons.timers > 0
  /\ buttons' = [buttons EXCEPT !.timers = @ - 1, !.exportStatus = NoStatus]
  /\ UNCHANGED <<exportVars, handlers, sub, optimizer, auth>>

\* the parent passes another resume, or the next export fails or not
PropsChange ==
  /\ clickDeliverable(buttons)
  /\ resumeData' \in NamedResumes
  /\ fault' \in FaultChoices
  /\ UNCHANGED <<state, pc, userType, result, word, preview, outcome, others>>

NextButtons ==
  \/ ClickPDFButton
  \/ PdfExportSettles
  \/ ClickWordButton
  \/ RenderButtons
  \/ StatusTimerFires
  \/ PropsChange

SpecButtons == InitButtons /\ [][NextButtons]_vars

(***************************************************************************)
(* AuthModal in App.  App always renders AuthModal, which returns null     *)
(* while isOpen is false: its currentView outlives a close.                *)
(***************************************************************************)
\* setTimeout(..., 2500) / setTimeout(..., 100000)
Timer(delay, session) == [delay |-> delay, session |-> session]

\* App.handleShowAuth
handleShowAuth(a) ==
  [a EXCEPT !.showAuthModal = TRUE, !.showMobileMenu = FALSE,
            !.session = IF a.showAuthModal THEN @ ELSE @ + 1]

\* App.handleMobileMenuToggle
handleMobileMenuToggle(a) == [a EXCEPT !.showMobileMenu = ~a.showMobileMenu]

\* onClose={() => setShowAuthModal(false)}
onClose(a) == [a EXCEPT !.showAuthModal = FALSE]

handleSignupSuccess(a) ==
  [a EXCEPT !.currentView = "success", !.timers = Append(@, Timer(2500, a.session)),
            !.successes = @ + 1]

handleForgotPasswordSuccess(a) ==
  [a EXCEPT !.currentView = "success", !.timers = Append(@, Timer(100000, a.session)),
            !.successes = @ + 1]

\* the callback of the timers: onClose(); setCurrentView('login')
timerCallback(a) == [onClose(a) EXCEPT !.currentView = "login"]

\* the sequence without its k-th element
removeAt(seq, k) == SubSeq(seq, 1, k - 1) \o SubSeq(seq, k + 1, Len(seq))

\* timer k is due before every timer set before it
canFire(timers, k) == \A j \in 1..(k - 1) : timers[j].delay > timers[k].delay

InitAuth ==
  /\ auth = NoAuth
  /\ resumeData \in NamedResumes /\ resumeData.name.kind = "text"
  /\ resumeData.targetRole.kind = "undefined"
  /\ userType = "experienced"
  /\ state = NewPageState
  /\ pc = At("auth", 0)
  /\ result = [fn |-> "none", arg |-> 0, value |-> 0]
  /\ word = << >>
  /\ preview = << >>
  /\ outcome = NoOutcome
  /\ fault = "none"
  /\ handlers = NoHandlers
  /\ sub = NoDialog
  /\ optimizer = NoOptimizer
  /\ buttons = NoButtons

\* the menu button of the header, which the open modal covers
MobileMenuToggle ==
  /\ ~auth.showAuthModal
  /\ auth' = handleMobileMenuToggle(auth)
  /\ UNCHANGED <<exportVars, handlers, sub, optimizer, buttons>>

\* a Sign In button of the page or of the mobile menu
ShowAuth ==
  /\ ~auth.showAuthModal
  /\ auth.session <= MaxRuns
  /\ auth' = handleShowAuth(auth)
  /\ UNCHANGED <<exportVars, handlers, sub, optimizer, buttons>>

\* the backdrop, the close button, or LoginForm's onClose
CloseAuth ==
  /\ auth.showAuthModal
  /\ auth' = onClose(auth)
  /\ UNCHANGED <<exportVars, handlers, sub, optimizer, buttons>>

\* the links between the login, signup and forgot-password forms
SwitchView ==
  /\ auth.showAuthModal
  /\ \/ /\ auth.currentView = "login"
        /\ \E view \in {"signup", "forgot-password"} :
             auth' = [auth EXCEPT !.currentView = view]
     \/ /\ auth.currentView \in {"signup", "forgot-password"}
        /\ auth' = [auth EXCEPT !.currentView = "login"]
  /\ UNCHANGED <<exportVars, handlers, sub, optimizer, buttons>>

SignupSucceeds ==
  /\ auth.showAuthModal
  /\ auth.currentView = "signup"
  /\ auth.successes < MaxRuns
  /\ auth' = handleSignupSuccess(auth)
  /\ UNCHANGED <<exportVars, handlers, sub, optimizer, buttons>>

ForgotPasswordSucceeds ==
  /\ auth.showAuthModal
  /\ auth.currentView = "forgot-password"
  /\ auth.successes < MaxRuns
  /\ auth' = handleForgotPasswordSuccess(auth)
  /\ UNCHANGED <<exportVars, handlers, sub, optimizer, buttons>>

\* a timer runs its callback
AuthTimerFires ==
  /\ \E k \in 1..Len(auth.timers) :
       /\ canFire(auth.timers, k)
       /\ auth' = timerCallback([auth EXCEPT !.timers = removeAt(@, k)])
  /\ UNCHANGED <<exportVars, handlers, sub, optimizer, buttons>>

NextAuth ==
  \/ MobileMenuToggle
  \/ ShowAuth
  \/ CloseAuth
  \/ SwitchView
  \/ SignupSucceeds
  \/ ForgotPasswordSucceeds
  \/ AuthTimerFires

SpecAuth == InitAuth /\ [][NextAuth]_vars

(***************************************************************************)
(* Direct calls of the layout functions: one call of checkPageSpace or of  *)
(* a section renderer on a PageState whose cursor is drawn from a set of   *)
(* positions around the page bottom.                                       *)
(***************************************************************************)
HeightChoices ==
  {0, lineHeightOf(fontBody), lineHeightOf(fontSectionTitle) + mm(2), mm(10), mm(15),
   mm(20), mm(25), MaxLines * lineHeightOf(fontBody)}

CursorChoices ==
  {marginTop, nameFromTop}
  \cup {pageHeight - marginBottom - h + d : h \in HeightChoices \ {0}, d \in {-1, 0, 1}}

UnitResumes ==
  { MakeResume(present, 1, 1, summary, contact, extras) :
      present \in {{}, ListSections},
      summary \in {Str("undefined", 0), Str("empty", 0), Str("text", 1)},
      contact \in ContactChoices,
      extras \in ExtrasChoices(1) }

Renderers ==
  {"drawContactInfo", "drawProfessionalSummary", "drawWorkExperience", "drawEducation",
   "drawProjects", "drawSkills", "drawCertifications", "drawAchievementsAndExtras"}

callRenderer(fn, S, data, ut) ==
  CASE fn = "drawContactInfo" -> drawContactInfo(S, data)
    [] fn = "drawProfessionalSummary" -> drawProfessionalSummary(S, data.summary)
    [] fn = "drawWorkExperience" -> drawWorkExperience(S, data.workExperience, ut)
    [] fn = "drawEducation" -> drawEducation(S, data.education)
    [] fn = "drawProjects" -> drawProjects(S, data.projects)
    [] fn = "drawSkills" -> drawSkills(S, data.skills)
    [] fn = "drawCertifications" -> drawCertifications(S, data.certifications)
    [] fn = "drawAchievementsAndExtras" -> drawAchievementsAndExtras(S, data)

InitUnit ==
  /\ resumeData \in UnitResumes
  /\ userType \in {"experienced", "fresher"}
  /\ \E y \in CursorChoices : state = [NewPageState EXCEPT !.currentY = y]
  /\ pc = At("unit", 0)
  /\ result = [fn |-> "none", arg |-> 0, value |-> 0]
  /\ word = << >>
  /\ preview = << >>
  /\ outcome = NoOutcome
  /\ fault = "none"
  /\ handlers = NoHandlers
  /\ sub = NoDialog
  /\ optimizer = NoOptimizer
  /\ buttons = NoButtons
  /\ auth = NoAuth

CallCheckPageSpace ==
  /\ pc.at = "unit"
  /\ \E requiredHeight \in HeightChoices :
       result' = [fn |-> "checkPageSpace", arg |-> requiredHeight,
                  value |-> IF checkPageSpace(state, requiredHeight) THEN 1 ELSE 0]
  /\ pc' = At("returned", 0)
  /\ UNCHANGED <<state, resumeData, userType, word, preview, outcome, fault, others>>

CallRenderer ==
  /\ pc.at = "unit"
  /\ \E fn \in Renderers :
       /\ state' = callRenderer(fn, state, resumeData, userType)
       /\ result' = [fn |-> fn, arg |-> 0, value |-> state'.ret]
  /\ pc' = At("returned", 0)
  /\ UNCHANGED <<resumeData, userType, word, preview, outcome, fault, others>>

NextUnit ==
  \/ CallCheckPageSpace
  \/ CallRenderer

SpecUnit == InitUnit /\ [][NextUnit]_vars

(***************************************************************************)
(* Properties                                                              *)
(***************************************************************************)
Items == state.items

\* C1: checkPageSpace(state, h) returns true exactly when
\* state.currentY + h <= pageHeight - bottomMargin (the boundary value
\* fits), and the call changes neither the cursor nor the document.
C1_CheckPageSpace ==
  [][result'.fn = "checkPageSpace" =>
       /\ (result'.value = 1) <=>
            (state.currentY + result'.arg <= mm(300) - mm(0))
       /\ state'.currentY = state.currentY
       /\ state'.currentPage = state.currentPage
       /\ state'.numPages = state.numPages
       /\ state'.items = state.items]_vars

\* a call at the exact boundary returned true
C1_Witness ==
  /\ result.fn = "checkPageSpace"
  /\ result.arg > 0
  /\ state.currentY + result.arg = mm(300)
  /\ result.value = 1

LastItem == Items[Len(Items)]

PdfDone == pc.at = "done"

\* C2: every addNewPage ends with currentY at the top margin, currentPage
\* one greater than before and exactly one page appended to the document
\* (the "Page n" label it draws records the cursor before and after), so
\* currentPage always equals the number of pages of the document.
C2_AddNewPage ==
  /\ state.currentPage = state.numPages
  /\ \A k \in 1..Len(Items) :
       Items[k].kind = "pageLabel" =>
         /\ Items[k].cy = mm(10)
         /\ Items[k].cp = Items[k].cp0 + 1
         /\ Items[k].np = (IF k = 1 THEN 1 ELSE Items[k - 1].np) + 1
         /\ Items[k].page = Items[k].np

\* a finished export with three pages
C2_Witness ==
  /\ PdfDone
  /\ state.currentPage = 3
  /\ Cardinality({k \in 1..Len(Items) : Items[k].kind = "pageLabel"}) = 2

\* C3: drawText breaks the page before drawing: a block that does not fit
\* below the cursor at the call is preceded by exactly one page break and
\* starts at the top margin of the new page; a block that fits is drawn at
\* the cursor without a break; all its lines are on one page.
C3_BreakBeforeDraw ==
  \A k \in 1..Len(Items) :
    Items[k].op = "drawText" =>
      /\ Items[k].pageLast = Items[k].page
      /\ Items[k].page = Items[k].cp
      /\ IF Items[k].y0 + Items[k].n * Items[k].lh <= mm(300) - mm(0)
         THEN /\ Items[k].cp = Items[k].cp0
              /\ Items[k].y = Items[k].y0
         ELSE /\ Items[k].cp = Items[k].cp0 + 1
              /\ Items[k].y = mm(10)
              /\ k > 1
              /\ Items[k - 1].kind = "pageLabel"
              /\ Items[k - 1].cp0 = Items[k].cp0

\* a wrapped bullet of several lines that did not fit was moved as a whole
C3_Witness ==
  \E k \in 1..Len(Items) :
    /\ Items[k].op = "drawText"
    /\ Items[k].kind = "bullet"
    /\ Items[k].n > 3
    /\ Items[k].y0 + Items[k].lh <= mm(300)
    /\ Items[k].y0 + Items[k].n * Items[k].lh > mm(300)
    /\ Items[k].y = mm(10)

\* C4: currentY never decreases from one drawing call to the next except
\* at a page creation, which sets it to exactly the top margin.
C4_CursorMonotone ==
  /\ \A k \in 1..Len(Items) :
       IF Items[k].kind = "pageLabel"
       THEN Items[k].cy = mm(10)
       ELSE Items[k].cy >= (IF k = 1 THEN mm(10) ELSE Items[k - 1].cy)
  /\ Len(Items) > 0 => state.currentY >= LastItem.cy

\* a finished export in which the cursor was reset by a page creation after
\* it had advanced beyond half of the page
C4_Witness ==
  /\ PdfDone
  /\ \E k \in 2..Len(Items) :
       /\ Items[k].kind = "pageLabel"
       /\ Items[k - 1].cy > mm(150)
       /\ k < Len(Items)
       /\ Items[k + 1].cy >= mm(10)

\* the section a title belongs to
SectionOfTitle(title) ==
  CASE title \in {"EXPERIENCE", "WORK EXPERIENCE"} -> "Experience"
    [] title \in {"PROJECTS", "ACADEMIC PROJECTS"} -> "Projects"
    [] title = "SKILLS" -> "Skills"
    [] title = "CERTIFICATIONS" -> "Certifications"
    [] title = "EDUCATION" -> "Education"
    [] title = "ACHIEVEMENTS & EXTRAS" -> "Achievements&Extras"
    [] OTHER -> "Summary"

\* the headings drawn so far, in drawing order, without the summary
HeadingItems ==
  SelectSeq(Items, LAMBDA it : it.kind = "sectionTitle" /\ it.sec # "PROFESSIONAL SUMMARY")

Headings == [k \in 1..Len(HeadingItems) |-> SectionOfTitle(HeadingItems[k].sec)]

NonEmptySection(name) ==
  CASE name = "Experience" -> resumeData.workExperience # << >>
    [] name = "Projects" -> resumeData.projects # << >>
    [] name = "Skills" -> resumeData.skills # << >>
    [] name = "Certifications" -> resumeData.certifications # << >>
    [] name = "Education" -> resumeData.education # << >>
    [] name = "Achievements&Extras" ->
         \/ resumeData.achievements # << >>
         \/ resumeData.extraCurricularActivities # << >>
         \/ resumeData.languagesKnown # << >>
         \/ resumeData.personalDetails.kind = "text"

ExpectedHeadings ==
  SelectSeq(IF userType = "experienced"
            THEN <<"Experience", "Projects", "Skills", "Certifications", "Education">>
            ELSE <<"Education", "Experience", "Projects", "Skills", "Certifications",
                   "Achievements&Extras">>,
            NonEmptySection)

\* C5: the section headings exportToPDF emits after the summary are the
\* non-empty sections in the fixed order of the user type: at any time a
\* prefix of that list, and the whole list when the export is finished.
C5_SectionOrder ==
  /\ Len(Headings) <= Len(ExpectedHeadings)
  /\ Headings = SubSeq(ExpectedHeadings, 1, Len(Headings))
  /\ PdfDone => Headings = ExpectedHeadings

\* a finished experienced export that skipped empty sections and ended
\* with Education
C5_Witness ==
  /\ PdfDone
  /\ userType = "experienced"
  /\ Headings = <<"Experience", "Skills", "Education">>

\* the data field a renderer reads is empty or absent
EmptyData(fn) ==
  CASE fn = "drawContactInfo" -> resumeData.contact = {}
    [] fn = "drawProfessionalSummary" -> resumeData.summary.kind \in {"undefined", "empty"}
    [] fn = "drawWorkExperience" -> resumeData.workExperience = << >>
    [] fn = "drawEducation" -> resumeData.education = << >>
    [] fn = "drawProjects" -> resumeData.projects = << >>
    [] fn = "drawSkills" -> resumeData.skills = << >>
    [] fn = "drawCertifications" -> resumeData.certifications = << >>
    [] fn = "drawAchievementsAndExtras" ->
         /\ resumeData.achievements = << >>
         /\ resumeData.extraCurricularActivities = << >>
         /\ resumeData.languagesKnown = << >>
         /\ resumeData.personalDetails.kind \in {"undefined", "empty"}

\* C6: a section renderer called with an empty or absent data field returns
\* 0, draws nothing, creates no page and leaves currentY and currentPage
\* unchanged.
C6_EmptySectionNoEffect ==
  [][\A fn \in Renderers :
       (pc.at = "unit" /\ result'.fn = fn /\ EmptyData(fn)) =>
         /\ result'.value = 0
         /\ state'.items = state.items
         /\ state'.numPages = state.numPages
         /\ state'.currentY = state.currentY
         /\ state'.currentPage = state.currentPage]_vars

\* drawEducation returned from an empty list with the cursor so close to the
\* page bottom that a section title would have broken the page
C6_Witness ==
  /\ result.fn = "drawEducation"
  /\ resumeData.education = << >>
  /\ resumeData.contact # {}
  /\ state.currentY + lineHeightOf(fontBody) > mm(300)
  /\ result.value = 0
  /\ state.items = << >>

\* C7: after layout with N pages, if N > 1 every page i carries the footer
\* "Page i of N" stamped on page i itself, and if N = 1 no footer is
\* stamped.
C7_FooterOnEveryPage ==
  PdfDone =>
    IF state.numPages > 1
    THEN \A i \in 1..state.numPages :
           \E k \in 1..Len(Items) :
             /\ Items[k].kind = "footer"
             /\ Items[k].entry = i
             /\ Items[k].n = state.numPages
             /\ Items[k].page = i
    ELSE \A k \in 1..Len(Items) : Items[k].kind # "footer"

\* the header lines, text lines and bullets of the entries of list sections
\* (the right-aligned year label is not among them)
EntryKinds == {"header", "company", "school", "cgpa", "coursework", "bullet", "skillList"}

EntryItems ==
  SelectSeq(Items, LAMBDA it : it.kind \in EntryKinds /\ it.sec # "header")

\* the last line of a is above the first line of b, or on an earlier page
Above(a, b) ==
  \/ a.pageLast < b.page
  \/ /\ a.pageLast = b.page
     /\ a.y + (a.n - 1) * a.lh < b.y

\* the bold skill category and the first line of its list share one line
SameLine(a, b) ==
  /\ a.kind = "header" /\ b.kind = "skillList"
  /\ a.entry = b.entry /\ a.page = b.page /\ a.y = b.y

ChainCertText(cert) ==
  IF cert.type = "string" THEN <<cert.str>>
  ELSE IF cert.type # "object" THEN <<"String", cert.str>>
  ELSE IF HasKey(cert, "title") /\ HasKey(cert, "issuer")
  THEN <<Field(cert, "title"), " - ", Field(cert, "issuer")>>
  ELSE IF HasKey(cert, "title") /\ HasKey(cert, "description")
  THEN <<Field(cert, "title"), " - ", Field(cert, "description")>>
  ELSE IF HasKey(cert, "name") THEN <<Field(cert, "name")>>
  ELSE IF HasKey(cert, "title") THEN <<Field(cert, "title")>>
  ELSE IF HasKey(cert, "description") THEN <<Field(cert, "description")>>
  ELSE joinTruthyValues(cert)

CertBlocks(blocks) == SelectSeq(blocks, LAMBDA b : b.kind = "cert")

PdfCertItems ==
  SelectSeq(Items, LAMBDA it : it.kind = "header" /\ it.sec = "CERTIFICATIONS")

\* C9: the PDF export, the Word export and the preview all produce, for
\* every certification entry, the display string of the priority chain
\* string; title - issuer; title - description; name; title; description;
\* join of the truthy values.
C9_CertificationText ==
  /\ \A k \in 1..Len(PdfCertItems) :
       PdfCertItems[k].text = ChainCertText(resumeData.certifications[PdfCertItems[k].entry])
  /\ \A k \in 1..Len(CertBlocks(word)) :
       CertBlocks(word)[k].text = ChainCertText(resumeData.certifications[k])
  /\ \A k \in 1..Len(CertBlocks(preview)) :
       CertBlocks(preview)[k].text = ChainCertText(resumeData.certifications[k])

ProjectsTitleOfClaim == IF userType = "fresher" THEN "ACADEMIC PROJECTS" ELSE "PROJECTS"

\* C10: the projects section title is ACADEMIC PROJECTS for a fresher and
\* PROJECTS otherwise, in the PDF export, the Word export and the preview.
C10_ProjectsTitle ==
  /\ \A k \in 1..Len(Items) :
       (Items[k].kind = "sectionTitle" /\ SectionOfTitle(Items[k].sec) = "Projects") =>
         Items[k].sec = ProjectsTitleOfClaim
  /\ \A k \in 1..Len(word) :
       (word[k].kind = "title" /\ word[k].sec = "projects") =>
         word[k].text = <<ProjectsTitleOfClaim>>
  /\ \A k \in 1..Len(preview) :
       (preview[k].kind = "title" /\ preview[k].sec = "projects") =>
         preview[k].text = <<ProjectsTitleOfClaim>>

\* the file name the export is to be saved under: name, then _role only
\* when a target role is present, then _Resume.<ext>
NamedFile(ext) ==
  replaceWhitespaceRuns(resumeData.name.chars, 1)
  \o (IF resumeData.targetRole.kind = "text"
      THEN <<"_">> \o replaceWhitespaceRuns(resumeData.targetRole.chars, 1)
      ELSE << >>)
  \o <<"_Resume", ".", ext>>

\* C11: an export is saved under <name>[_<targetRole>]_Resume.<ext>, whitespace
\* runs replaced by _, with ext pdf for the PDF export and doc for the Word
\* export.
C11_FileName ==
  \A k \in 1..Len(outcome.files) :
    outcome.files[k] = NamedFile(IF pc.at = "wordDone" THEN "doc" ELSE "pdf")

PdfRejected == pc.at = "rejected"

\* C12: when a step of the PDF layout throws, doc.save / triggerMobileDownload
\* is not reached, no file is produced, and the promise rejects with one of
\* the three fixed messages; an export that produced a file did not reject.
C12_FailedExportNoFile ==
  /\ PdfRejected =>
       /\ outcome.files = << >>
       /\ outcome.error \in {PdfGenerationFailed, PdfCreationError, PdfUnexpectedError}
  /\ pc.at \in {"exportToPDF", "done"} =>
       /\ outcome.error = "none"
       /\ Len(outcome.files) = IF PdfDone THEN 1 ELSE 0

\* the document library threw after the first page break of the layout
C12_Witness ==
  /\ PdfRejected
  /\ state.numPages > 1
  /\ fault = "jsPDFError"
  /\ outcome.error = PdfGenerationFailed
  /\ outcome.files = << >>

ExtrasLabels ==
  <<"Achievements:", "Extra-curricular Activities:", "Languages Known:", "Personal Details:">>

\* the g-th of the four extras fields is non-empty
NonEmptyGroup(g) ==
  CASE g = 1 -> Len(resumeData.achievements) > 0
    [] g = 2 -> Len(resumeData.extraCurricularActivities) > 0
    [] g = 3 -> Len(resumeData.languagesKnown) > 0
    [] g = 4 -> resumeData.personalDetails.kind = "text"

\* the sub-blocks the section is to show: none unless the user is a fresher
ExpectedGroups ==
  IF userType = "fresher" THEN SelectSeq(<<1, 2, 3, 4>>, NonEmptyGroup) ELSE << >>

PdfExtrasTitles ==
  SelectSeq(Items, LAMBDA it : it.kind = "sectionTitle" /\ it.sec = "ACHIEVEMENTS & EXTRAS")

PdfExtrasHeaders ==
  SelectSeq(Items, LAMBDA it : it.kind = "header" /\ it.sec = "ACHIEVEMENTS & EXTRAS")

WordExtras(kind) ==
  SelectSeq(word, LAMBDA b : b.kind = kind /\ b.sec = "achievementsAndExtras")

\* C13: the Achievements & Extras section appears only for a fresher with at
\* least one non-empty extras field, and its sub-blocks are exactly the
\* non-empty ones in the order Achievements, Extra-curricular Activities,
\* Languages Known, Personal Details; in the PDF export, and in the Word
\* export when personalDetails is absent.
C13_ExtrasSubBlocks ==
  /\ PdfDone =>
       /\ Len(PdfExtrasTitles) = IF ExpectedGroups # << >> THEN 1 ELSE 0
       /\ [k \in 1..Len(PdfExtrasHeaders) |-> PdfExtrasHeaders[k].entry] = ExpectedGroups
  /\ (word # << >> /\ resumeData.personalDetails.kind = "undefined") =>
       /\ Len(WordExtras("title")) = IF ExpectedGroups # << >> THEN 1 ELSE 0
       /\ [k \in 1..Len(WordExtras("subTitle")) |-> WordExtras("subTitle")[k].text]
            = [k \in 1..Len(ExpectedGroups) |-> <<ExtrasLabels[ExpectedGroups[k]]>>]

\* the PDF half of C13 alone
C13_PdfHalf ==
  PdfDone =>
    /\ Len(PdfExtrasTitles) = IF ExpectedGroups # << >> THEN 1 ELSE 0
    /\ [k \in 1..Len(PdfExtrasHeaders) |-> PdfExtrasHeaders[k].entry] = ExpectedGroups

YearItems == SelectSeq(Items, LAMBDA it : it.kind = "year")

\* the role / degree line of the entry a year label belongs to
HeaderOf(yr) ==
  CHOOSE k \in 1..Len(Items) :
    /\ Items[k].kind = "header"
    /\ Items[k].sec = yr.sec
    /\ Items[k].entry = yr.entry

\* C14: the year label of every work-experience and education entry is drawn
\* on the page of the first line of the entry's header, at the position
\* derived from the cursor value at which that line is drawn, also when the
\* entry starts with a page break.
C14_YearLabelAligned ==
  \A k \in 1..Len(YearItems) :
    /\ YearItems[k].page = Items[HeaderOf(YearItems[k])].page
    /\ YearItems[k].y = Items[HeaderOf(YearItems[k])].y

\* one step of exportToPDF applied to a PageState
runStep(name, S, data, ut) ==
  CASE name = "drawName" ->
         bump(drawText([NewPageState EXCEPT !.currentY = nameFromTop],
                       Tag("name", "header", 0), data.name.lines, fontName),
              afterName)
    [] name = "drawContactInfo" -> drawContactInfo(S, data)
    [] name = "separator" ->
         bump(docLine(S, Tag("separator", "header", 0), S.currentY), mm(3))
    [] name = "drawProfessionalSummary" ->
         IF ~TrimIsEmpty(data.summary) THEN drawProfessionalSummary(S, data.summary) ELSE S
    [] name = "drawWorkExperience" -> drawWorkExperience(S, data.workExperience, ut)
    [] name = "drawEducation" -> drawEducation(S, data.education)
    [] name = "drawProjects" -> drawProjects(S, data.projects)
    [] name = "drawSkills" -> drawSkills(S, data.skills)
    [] name = "drawCertifications" -> drawCertifications(S, data.certifications)
    [] name = "drawAchievementsAndExtras" -> drawAchievementsAndExtras(S, data)
    [] name = "pageNumbers" ->
         IF S.currentPage > 1 THEN stampPages(S, 1, S.currentPage) ELSE S
    [] name = "save" -> S

\* the PageState of an export of data that runs alone, after its first k
\* steps (each step is applied to the value of the state before it)
RECURSIVE soloLayout(_, _, _)
soloLayout(data, ut, k) ==
  IF k = 0 THEN NewPageState
  ELSE CHOOSE T \in {runStep(exportSteps(ut)[k], S, data, ut) :
                       S \in {soloLayout(data, ut, k - 1)}} : TRUE

\* C15: two exportToPDF calls run by two event handlers do not affect each
\* other: at every step of a call, and at its end, its page count, cursor
\* and drawn document are those of the same export running alone on a fresh
\* PageState.
C15_CallsIsolated ==
  /\ pc.at = "exportToPDF" => state = soloLayout(resumeData, userType, pc.step - 1)
  /\ PdfDone => state = soloLayout(resumeData, userType, Len(exportSteps(userType)))

\* the second call ended with one page after a first call that drew three
C15_Witness ==
  /\ handlers.served = 2
  /\ PdfDone
  /\ Len(outcome.files) = 2
  /\ state.numPages = 1
  /\ soloLayout(handlers.queue[1].data, handlers.queue[1].ut,
                Len(exportSteps(handlers.queue[1].ut))).numPages > 2

\* the header line of the first entry drawn under the section title at k, or
\* 0 when the section has no entry header
FirstHeaderAfter(k) ==
  LET later == {j \in (k + 1)..Len(Items) :
                  Items[j].kind = "header" /\ Items[j].sec = Items[k].sec}
  IN  IF later = {} THEN 0 ELSE CHOOSE j \in later : \A i \in later : j <= i

\* C16: no section title is orphaned: the first header line of the section's
\* first entry is drawn on the page of the section title.
C16_NoOrphanedTitle ==
  \A k \in 1..Len(Items) :
    (Items[k].kind = "sectionTitle" /\ FirstHeaderAfter(k) # 0) =>
      Items[FirstHeaderAfter(k)].page = Items[k].page

\* C17: whenever the applied coupon is FREETRIAL the selected plan is the
\* hourly plan, so the FREETRIAL discount never enters the final amount of
\* another plan.
C17_FreeTrialOnlyHourly ==
  sub.appliedCoupon.code = "FREETRIAL" => sub.selectedPlan = "hourly"

\* C18: a click on Apply FREETRIAL Coupon submits the code FREETRIAL to
\* coupon validation in that click and never ends in the error Please enter
\* a coupon code.
C18_FreeTrialButtonSubmits ==
  sub.lastClick = "applyFreeTrial" =>
    /\ sub.submitted = "FREETRIAL"
    /\ sub.couponError # PleaseEnterCode

\* the final amount of a service call: price minus discount, floored at 0
AmountDue(call) ==
  IF call.coupon = NoCoupon THEN priceOf(call.planId)
  ELSE IF calculateDiscount(priceOf(call.planId), call.coupon) >= priceOf(call.planId)
  THEN 0
  ELSE priceOf(call.planId) - calculateDiscount(priceOf(call.planId), call.coupon)

\* C19: every run of handlePayment that passes the user / plan check makes
\* exactly one service call, createFreeSubscription iff the final amount is
\* 0; onClose and onSubscriptionSuccess are called once per call that
\* returned success; isProcessing is false once the run has settled.
C19_PaymentRuns ==
  /\ sub.callCount = sub.runs
  /\ sub.settled = sub.runs - (IF sub.pending = NoCall THEN 0 ELSE 1)
  /\ sub.pending # NoCall =>
       /\ sub.pending.fn \in {"createFreeSubscription", "processPayment"}
       /\ sub.pending.fn = "createFreeSubscription" <=> AmountDue(sub.pending) = 0
  /\ sub.closed = sub.successes
  /\ sub.succeeded = sub.successes
  /\ sub.pending = NoCall <=> ~sub.isProcessing

\* a second run of handlePayment, a free subscription for a coupon worth
\* more than the plan, has settled with success after a first run that did not
C19_Witness ==
  /\ sub.runs = 2
  /\ sub.settled = 2
  /\ sub.appliedCoupon.discount > 100
  /\ sub.successes = 1
  /\ sub.closed = 1
  /\ ~sub.isProcessing

\* the state handleOptimize was called in has no optimization to give
NothingLeft(o) ==
  \/ ~o.subscription.active
  \/ o.subscription.optimizationsTotal - o.subscription.optimizationsUsed <= 0

MustNotStart(o) ==
  \/ trimText(o.resumeText) = ""
  \/ trimText(o.jobDescription) = ""
  \/ ~o.user
  \/ NothingLeft(o)

\* C20: a call of handleOptimize with a blank resume text or job
\* description, no user, no subscription or no optimization left does not
\* start optimizeResume; with inputs and user present but no subscription or
\* nothing left it opens the subscription plans and isOptimizing stays
\* false.  The await of handleOptimize is entered by no other step.
C20_OptimizeGuarded ==
  [][/\ (optimizer'.at = "optimizeResume" /\ optimizer.at # "optimizeResume") =>
          /\ optimizer'.lastEvent = "handleOptimize"
          /\ ~MustNotStart(optimizer)
     /\ (optimizer'.lastEvent = "handleOptimize" /\ MustNotStart(optimizer)) =>
          /\ optimizer'.at = "idle"
          /\ ~optimizer'.isOptimizing
     /\ ( /\ optimizer'.lastEvent = "handleOptimize"
          /\ trimText(optimizer.resumeText) # ""
          /\ trimText(optimizer.jobDescription) # ""
          /\ optimizer.user
          /\ NothingLeft(optimizer) ) =>
          optimizer'.showSubscriptionPlans]_vars

\* handleOptimize was called with exactly as many optimizations used as the
\* plan gives: it opened the plans and started nothing
C20_Witness ==
  /\ optimizer.lastEvent = "handleOptimize"
  /\ optimizer.subscription.active
  /\ optimizer.subscription.optimizationsTotal = MaxOptimizations
  /\ optimizer.subscription.optimizationsUsed = MaxOptimizations
  /\ optimizer.alert = AllUsed
  /\ optimizer.showSubscriptionPlans
  /\ ~optimizer.isOptimizing

\* the optimized resume is on screen with its export buttons and no dialog
\* over it
ResumeShown ==
  /\ ~optimizer.isOptimizing
  /\ optimizer.optimizedResume # "null"
  /\ ~optimizer.showProjectAnalysis

\* C21: an optimized resume is shown (and exportable) only after
\* useOptimization was called for the run that produced it.
C21_ShownOnlyAfterDeduction ==
  ResumeShown => optimizer.deducted

\* C24: when the desktop Score Analysis tab renders ComprehensiveAnalysis,
\* beforeScore and afterScore are both non-null.
C24_AnalysisHasScores ==
  (TabsShown(optimizer) /\ optimizer.activeTab = "analysis") =>
    (optimizer.beforeScore /\ optimizer.afterScore)

C23_WordFailureReported ==
  (buttons.attempt.type = "word" /\ buttons.attempt.rejection = WordExportFailed) =>
    /\ buttons.attempt.status = "error"
    /\ buttons.exportStatus \in {NoStatus, Status("word", "error", WordExportFailed)}

\* C25: a timer set by a success view acts only on the opening of the modal
\* that set it: when the modal was closed and opened again in between, the
\* timer neither closes it nor changes its view.
C25_TimerOwnSession ==
  [][\A k \in 1..Len(auth.timers) :
       ( /\ auth'.timers = removeAt(auth.timers, k)
         /\ auth.timers[k].session # auth.session
         /\ auth.showAuthModal ) =>
         /\ auth'.showAuthModal
         /\ auth'.currentView = auth.currentView]_vars

====
